---- MODULE Spec2Model ----
(***************************************************************************)
(* Model of code-insight: the Python source extractor                       *)
(* (libs/core/code/impl/python_code_parser.py) and the graph constructor    *)
(* (libs/core/graph/base_graph_converter.py and its Neo4j implementation).  *)
(*                                                                          *)
(* Three specifications share this module:                                  *)
(*   SpecArgs   PythonCodeParser._parse_args applied to one ast.arguments   *)
(*   SpecWalk   the NodeVisitor walk of one file (classes, functions,       *)
(*              assignments) with the parser's context fields               *)
(*   SpecGraph  BaseGraphConverter.convert driving Neo4JGraphConverter      *)
(*                                                                          *)
(* Conventions.  A Python Optional[str] is a sequence: <<>> is None and     *)
(* <<t>> is the string t.  A Python None in an AST position is NoneNode.    *)
(* Python lists are 1-based sequences here; every index computed by the     *)
(* code is kept 0-based and converted by PyAt.                              *)
(***************************************************************************)
EXTENDS Integers, Sequences, FiniteSets, TLC

VARIABLES
    \* ---- SpecArgs
    args_node,          \* the ast.arguments handed to _parse_args
    args_info,          \* the FunctionArgsInfo it returns
    args_parsed,        \* whether _parse_args has returned
    \* ---- SpecWalk
    module_info,        \* self.module_info of the parser
    class_infos,        \* heap of ClassInfo objects, by object id
    func_infos,         \* heap of FunctionInfo objects, by object id
    current_class,      \* self.current_class: an object id, or 0 for None
    current_function,   \* self.current_function: an object id, or 0 for None
    stack,              \* the visitor's call stack (open visit_* frames)
    ast,                \* the definitions met so far, with their lexical parents
    assigns,            \* the assignments met so far, with their lexical position
    walk_pc,            \* "idle" | "walking" | "done" | "exited"
    returned,           \* what each parse_file call of this parser returned
    \* ---- SpecGraph
    rebuild,            \* self.rebuild
    module_nodes,       \* self.module_nodes  (insertion-ordered dict)
    class_nodes,        \* self.class_nodes
    method_nodes,       \* self.method_nodes
    function_nodes,     \* self.function_nodes
    db_nodes,           \* nodes held by the graph store
    db_edges,           \* relationships held by the graph store, in write order
    next_id,            \* next identity the store assigns
    conv,               \* position of the running convert call
    writes,             \* store operations of the running/last convert call
    call_log,           \* the create_* calls of the running/last convert call
    calls,              \* number of convert calls this converter has started
    history,            \* one record per convert call made on the store so far
    \* ---- SpecBody
    src_lines,          \* the lines of the source file, as readlines() gives them
    func_node,          \* the function definition handed to _get_function_body
    body,               \* what _get_function_body returned
    \* ---- SpecPath
    path_args,          \* project_dir, file_path and what the path names on disk
    path_result,        \* outcome of _get_module_name and of parse_file for it
    \* ---- SpecLoad
    dir_files,          \* the files os.walk yields for the project, in walk order
    loader,             \* position and results of ProjectLoader.load
    \* ---- SpecApp
    tasks,              \* self.tasks of the AppInitializer
    init_calls,         \* the add_task, task and run calls made so far
    exec_log            \* the task functions executed so far, with the call

argsVars == <<args_node, args_info, args_parsed>>
walkVars == <<module_info, class_infos, func_infos, current_class,
              current_function, stack, ast, assigns, walk_pc, returned>>
graphVars == <<rebuild, module_nodes, class_nodes, method_nodes, function_nodes,
               db_nodes, db_edges, next_id, conv, writes, call_log, calls, history>>
fileVars == <<src_lines, func_node, body, path_args, path_result, dir_files, loader>>
initVars == <<tasks, init_calls, exec_log>>
vars == <<argsVars, walkVars, graphVars, fileVars, initVars>>

(***************************************************************************)
(* Bounds of the model.                                                     *)
(***************************************************************************)
MaxPosOnly == 2
MaxNormal == 2
MaxKwOnly == 2

(***************************************************************************)
(* Shared helpers: Python values.                                           *)
(***************************************************************************)
None == <<>>
Some(t) == <<t>>
NoneNode == [node |-> "None"]

\* Python list indexing with a 0-based, possibly negative index
PyAt(list, idx) == IF idx >= 0 THEN list[idx + 1] ELSE list[Len(list) + idx + 1]

\* AST expression nodes
Constant(v) == [node |-> "Constant", value |-> v]
Name(id) == [node |-> "Name", id |-> id]
Attribute(attr) == [node |-> "Attribute", attr |-> attr]
Call(func) == [node |-> "Call", func |-> func]

\* ast.unparse: the source text of an expression
Unparse(node) ==
    CASE node.node = "Constant" -> ToString(node.value)
      [] node.node = "Name" -> node.id
      [] node.node = "Attribute" -> "m." \o node.attr
      [] node.node = "Call" -> node.func \o "()"

\* PythonCodeParser._unparse_node: None for None, else the source text
_unparse_node(node) ==
    IF node = NoneNode THEN None
    ELSE Some(Unparse(node))

(***************************************************************************)
(* PythonCodeParser._parse_args                                             *)
(***************************************************************************)
\* an ast.arg node
Arg(name) == [node |-> "arg", arg |-> name, annotation |-> NoneNode]

\* code_models.Argument
Argument(name, annotation, default) ==
    [name |-> name, annotation |-> annotation, default |-> default]

\* FunctionArgsInfo.model_construct(): every field at its default
FunctionArgsInfo ==
    [pos_only_args |-> <<>>, args |-> <<>>, var_args |-> NoneNode,
     kw_only_args |-> <<>>, kw_args |-> NoneNode]

\* index into args_node.defaults used for positional-only parameter i (0-based)
PosOnlyDefaultIndex(i, num_args, num_normal_args, num_defaults) ==
    IF num_args = num_defaults THEN i ELSE num_defaults - (num_args - i)

\* index into args_node.defaults used for normal parameter i (0-based)
NormalDefaultIndexCombined(i, num_args, num_normal_args, num_defaults) ==
    i - (num_args - num_defaults)

NormalDefaultIndex(i, num_args, num_normal_args, num_defaults) ==
    i - (num_normal_args - num_defaults)

\* index into kw_defaults used for keyword-only parameter i (0-based)
KwDefaultIndexRightAligned(i, num_kw_only_args, kw_defaults) ==
    LET present == {j \in 1..Len(kw_defaults) : kw_defaults[j] # NoneNode}
    IN  Cardinality(present) - (num_kw_only_args - i)

KwDefaultIndex(i, num_kw_only_args, kw_defaults) ==
    LET num_kw_defaults == Len(kw_defaults)
    IN  IF num_kw_only_args = num_kw_defaults THEN i
        ELSE num_kw_defaults - (num_kw_only_args - i)

_parse_args(node) ==
    LET num_defaults == Len(node.defaults)
        num_posonlyargs == Len(node.posonlyargs)
        num_normal_args == Len(node.args)
        num_args == num_normal_args + num_posonlyargs
        kw_defaults == node.kw_defaults
        num_kw_only_args == Len(node.kwonlyargs)
        PosOnly(k) ==
            LET i == k - 1
                arg == node.posonlyargs[k]
                default_value_index ==
                    PosOnlyDefaultIndex(i, num_args, num_normal_args, num_defaults)
            IN  Argument(arg.arg, _unparse_node(arg.annotation),
                    IF default_value_index >= 0
                    THEN _unparse_node(PyAt(node.defaults, default_value_index))
                    ELSE None)
        Normal(k) ==
            LET i == k - 1
                arg == node.args[k]
                default_value_index ==
                    NormalDefaultIndex(i, num_args, num_normal_args, num_defaults)
            IN  Argument(arg.arg, _unparse_node(arg.annotation),
                    IF default_value_index >= 0
                    THEN _unparse_node(PyAt(node.defaults, default_value_index))
                    ELSE None)
        KwOnly(k) ==
            LET i == k - 1
                arg == node.kwonlyargs[k]
                default_value_index == KwDefaultIndex(i, num_kw_only_args, kw_defaults)
            IN  Argument(arg.arg, _unparse_node(arg.annotation),
                    IF i < Len(kw_defaults)
                    THEN _unparse_node(PyAt(kw_defaults, default_value_index))
                    ELSE None)
    IN  [pos_only_args |-> [k \in 1..num_posonlyargs |-> PosOnly(k)],
         args |-> [k \in 1..num_normal_args |-> Normal(k)],
         var_args |->
            IF node.vararg # NoneNode
            THEN Argument(node.vararg.arg, _unparse_node(node.vararg.annotation),
                          None)
            ELSE NoneNode,
         kw_only_args |-> [k \in 1..num_kw_only_args |-> KwOnly(k)],
         kw_args |->
            IF node.kwarg # NoneNode
            THEN Argument(node.kwarg.arg, _unparse_node(node.kwarg.annotation),
                          None)
            ELSE NoneNode]

\* The ast.arguments nodes the Python grammar can produce within the bounds:
\* defaults no longer than the positional parameters, kw_defaults parallel to
\* kwonlyargs with NoneNode where a parameter has no default.
ArgsNodes ==
    { [posonlyargs |-> [k \in 1..c[1] |-> Arg("p" \o ToString(k))],
       args |-> [k \in 1..c[2] |-> Arg("a" \o ToString(k))],
       defaults |-> [k \in 1..c[3] |-> Constant(k)],
       vararg |-> IF va THEN Arg("args") ELSE NoneNode,
       kwonlyargs |-> [k \in 1..Len(kd) |-> Arg("k" \o ToString(k))],
       kw_defaults |-> [k \in 1..Len(kd) |-> IF kd[k] THEN Constant(10 + k) ELSE NoneNode],
       kwarg |-> IF kw THEN Arg("kwargs") ELSE NoneNode] :
      c \in {t \in (0..MaxPosOnly) \X (0..MaxNormal) \X (0..(MaxPosOnly + MaxNormal)) :
                t[3] <= t[1] + t[2]},
      va \in BOOLEAN, kw \in BOOLEAN,
      kd \in UNION {[1..n -> BOOLEAN] : n \in 0..MaxKwOnly} }

(***************************************************************************)
(* The extractor's walk of one file: PythonCodeParser as an ast.NodeVisitor. *)
(* generic_visit hands the visitor the next child statement; which          *)
(* statement that is, is the input.  An open visit_ClassDef/_visit_function  *)
(* call is a frame of `stack`; its Enter action is the part of the handler   *)
(* before generic_visit(node), its Exit action the part after it.            *)
(***************************************************************************)
MaxDefs == 2        \* class and function definitions in the file
MaxDepth == 2       \* nesting depth of definitions
MaxAssigns == 2     \* assignment statements in the file
MaxParses == 2      \* files one parser instance is asked to parse

\* characters of identifiers: cased upper, cased lower, uncased
UpperChars == {"A", "B"}
LowerChars == {"a", "b"}

\* str.isupper(): no lowercase cased character and at least one cased character
isupperAnyUpper(s) == \E k \in 1..Len(s) : s[k] \in UpperChars

isupper(s) ==
    /\ \A k \in 1..Len(s) : s[k] \notin LowerChars
    /\ \E k \in 1..Len(s) : s[k] \in UpperChars

\* ClassInfo.validate_constant_names: the check made on every key
validate_constant_names(v) == \A name \in DOMAIN v : isupper(name)

\* ModuleInfo.validate_module_constant_names
validate_module_constant_names(v) == \A name \in DOMAIN v : isupper(name)

\* code_models.VariableInfo
VariableInfo(name, annotation, value) ==
    [name |-> name, annotation |-> annotation, value |-> value]

\* ModuleInfo.model_construct(file_path=...): the collections the walk fills
ModuleInfo ==
    [classes |-> <<>>, functions |-> <<>>, constants |-> <<>>, variables |-> <<>>]

\* ClassInfo(name=..., bases=..., docs=...)
ClassInfo(name, bases) ==
    [name |-> name, bases |-> bases,
     instance_methods |-> <<>>, class_methods |-> <<>>, static_methods |-> <<>>,
     class_constants |-> <<>>, class_variables |-> <<>>, nested_classes |-> <<>>]

\* FunctionInfo(name=..., type=FunctionType.INSTANCE_FUNC, decorators=..., ...)
FunctionInfo(name, is_async, decorators) ==
    [name |-> name, is_async |-> is_async, type |-> "INSTANCE_FUNC",
     decorators |-> decorators, variables |-> <<>>]

\* dict[key] = value
DictSet(d, key, value) ==
    [k \in DOMAIN d \cup {key} |-> IF k = key THEN value ELSE d[k]]

\* PythonCodeParser._is_decorator
_is_decorator(decorator, name) ==
    IF decorator.node = "Name" THEN decorator.id = name
    ELSE IF decorator.node = "Attribute" THEN decorator.attr = name
    ELSE FALSE

\* any(self._is_decorator(d, name) for d in node.decorator_list)
AnyDecorator(decorator_list, name) ==
    \E k \in 1..Len(decorator_list) : _is_decorator(decorator_list[k], name)

\* lines 105-119: the FunctionType a method gets from its decorator list
MethodTypeStaticFirst(decorator_list) ==
    IF AnyDecorator(decorator_list, "staticmethod") THEN "STATIC_FUNC"
    ELSE IF AnyDecorator(decorator_list, "classmethod") THEN "CLASS_FUNC"
    ELSE "INSTANCE_FUNC"

MethodType(decorator_list) ==
    LET is_class_method == AnyDecorator(decorator_list, "classmethod")
        is_static_method == AnyDecorator(decorator_list, "staticmethod")
    IN  IF is_class_method THEN "CLASS_FUNC"
        ELSE IF is_static_method THEN "STATIC_FUNC"
        ELSE "INSTANCE_FUNC"

\* the function definitions and assignment statements the walk is fed
FunctionDefs ==
    { [decorator_list |-> <<>>, is_async |-> FALSE],
      [decorator_list |-> <<Attribute("staticmethod")>>, is_async |-> FALSE],
      [decorator_list |-> <<Name("staticmethod"), Name("classmethod")>>,
       is_async |-> TRUE],
      [decorator_list |-> <<Call("classmethod")>>, is_async |-> FALSE] }

\* ast.Assign(targets, value)
AssignNodes ==
    { [node |-> "Assign", targets |-> <<Name(n)>>, value |-> Constant(1)] :
        n \in { <<"A", "_">>, <<"a">> } }
    \cup { [node |-> "Assign", targets |-> <<Name(<<"a">>), Name(<<"A">>)>>,
            value |-> Constant(1)],
           [node |-> "Assign", targets |-> <<Attribute("x")>>, value |-> Constant(1)] }

\* ast.AnnAssign(target, annotation, value)
AnnAssignNodes ==
    { [node |-> "AnnAssign", target |-> Name(<<"A", "b">>), annotation |-> Name("int"),
       value |-> NoneNode],
      [node |-> "AnnAssign", target |-> Attribute("x"), annotation |-> Name("int"),
       value |-> NoneNode] }

WalkIdle ==
    /\ module_info = ModuleInfo
    /\ class_infos = <<>>
    /\ func_infos = <<>>
    /\ current_class = 0
    /\ current_function = 0
    /\ stack = <<>>
    /\ ast = <<>>
    /\ assigns = <<>>
    /\ walk_pc = "idle"
    /\ returned = <<>>

\* innermost open frame of a kind: its object id, or 0
InnermostOpen(kind) ==
    LET open == {k \in 1..Len(stack) : stack[k].kind = kind}
    IN  IF open = {} THEN 0
        ELSE stack[CHOOSE k \in open : \A j \in open : j <= k].id

\* parse_file lines 305-311: a fresh ModuleInfo, then self.visit(tree)
ParseFile ==
    /\ walk_pc = "idle"
    /\ module_info' = ModuleInfo
    /\ walk_pc' = "walking"
    /\ UNCHANGED <<class_infos, func_infos, current_class, current_function,
                   stack, ast, assigns, returned,
                   argsVars, graphVars, fileVars, initVars>>

\* parse_file line 313: return self.module_info.  The caller holds the
\* returned Module and, through it, the objects of the heap as they are now.
ParseFileReturn ==
    /\ walk_pc = "walking"
    /\ stack = <<>>
    /\ walk_pc' = "done"
    /\ returned' = Append(returned,
           [module_info |-> module_info, class_infos |-> class_infos,
            func_infos |-> func_infos, current_class |-> current_class,
            current_function |-> current_function])
    /\ UNCHANGED <<module_info, class_infos, func_infos, current_class,
                   current_function, stack, ast, assigns,
                   argsVars, graphVars, fileVars, initVars>>

\* parse_file called again on the same parser: lines 305-311 once more
ParseFileAgain ==
    /\ walk_pc \in {"done", "exited", "raised"}
    /\ Len(returned) < MaxParses
    /\ module_info' = ModuleInfo
    /\ walk_pc' = "walking"
    /\ UNCHANGED <<class_infos, func_infos, current_class, current_function,
                   stack, ast, assigns, returned,
                   argsVars, graphVars, fileVars, initVars>>

\* parse_file lines 305-309 and 314-316: ast.parse raises SyntaxError before
\* the walk starts, the handler calls exit()
ParseFileSyntaxError ==
    /\ walk_pc \in {"idle", "done", "exited", "raised"}
    /\ Len(returned) < MaxParses
    /\ module_info' = ModuleInfo
    /\ walk_pc' = "exited"
    /\ UNCHANGED <<class_infos, func_infos, current_class, current_function,
                   stack, ast, assigns, returned,
                   argsVars, graphVars, fileVars, initVars>>

\* parse_file lines 311 and 314: an exception raised inside self.visit(tree)
\* that is not a SyntaxError (the RecursionError of generic_visit on a deep
\* expression, an OSError of the open() in _get_function_body) leaves
\* parse_file; the open handlers are unwound without running the part after
\* generic_visit(node), so the contexts stay as they are
ParseFileRaises ==
    /\ walk_pc = "walking"
    /\ walk_pc' = "raised"
    /\ stack' = <<>>
    /\ UNCHANGED <<module_info, class_infos, func_infos, current_class,
                   current_function, ast, assigns, returned,
                   argsVars, graphVars, fileVars, initVars>>

CanOpenDef ==
    /\ walk_pc = "walking"
    /\ Len(ast) < MaxDefs
    /\ Len(stack) < MaxDepth

\* visit_ClassDef lines 54-64, up to generic_visit(node)
visit_ClassDef_Enter ==
    /\ CanOpenDef
    /\ LET id == Len(class_infos) + 1
           class_info == ClassInfo("C" \o ToString(id), <<>>)
           parent_class == current_class
       IN  /\ class_infos' = Append(class_infos, class_info)
           /\ stack' = Append(stack, [kind |-> "class", id |-> id,
                                      parent_class |-> parent_class])
           /\ current_class' = id
           /\ ast' = Append(ast, [kind |-> "class", id |-> id,
                                  decorator_list |-> <<>>,
                                  encl_class |-> InnermostOpen("class"),
                                  encl_func |-> InnermostOpen("func"),
                                  parent_kind |-> IF stack = <<>> THEN "module"
                                                  ELSE stack[Len(stack)].kind,
                                  parent_id |-> IF stack = <<>> THEN 0
                                                ELSE stack[Len(stack)].id,
                                  finished |-> FALSE])
    /\ UNCHANGED <<module_info, func_infos, current_function, assigns, walk_pc,
                   returned,
                   argsVars, graphVars, fileVars, initVars>>

\* index in `ast` of a definition
AstIndex(kind, id) == CHOOSE k \in 1..Len(ast) : ast[k].kind = kind /\ ast[k].id = id

MarkFinished(kind, id) == [ast EXCEPT ![AstIndex(kind, id)].finished = TRUE]

_visit_function_ExitKeepsContext ==
    /\ walk_pc = "walking"
    /\ stack # <<>>
    /\ stack[Len(stack)].kind = "func"
    /\ LET frame == stack[Len(stack)]
           f == frame.id
           type == MethodType(frame.decorator_list)
       IN  /\ IF current_class # 0
              THEN /\ func_infos' = [func_infos EXCEPT ![f].type = type]
                   /\ class_infos' =
                        IF type = "CLASS_FUNC"
                        THEN [class_infos EXCEPT ![current_class].class_methods =
                                 Append(@, f)]
                        ELSE IF type = "STATIC_FUNC"
                        THEN [class_infos EXCEPT ![current_class].static_methods =
                                 Append(@, f)]
                        ELSE [class_infos EXCEPT ![current_class].instance_methods =
                                 Append(@, f)]
                   /\ UNCHANGED module_info
              ELSE /\ module_info' =
                        [module_info EXCEPT !.functions = Append(@, f)]
                   /\ UNCHANGED <<func_infos, class_infos>>
           /\ current_function' = f
           /\ stack' = SubSeq(stack, 1, Len(stack) - 1)
           /\ ast' = MarkFinished("func", f)
    /\ UNCHANGED <<current_class, assigns, walk_pc, returned,
                   argsVars, graphVars, fileVars, initVars>>

visit_ClassDef_ExitPrepend ==
    /\ walk_pc = "walking"
    /\ stack # <<>>
    /\ stack[Len(stack)].kind = "class"
    /\ LET frame == stack[Len(stack)]
           parent_class == frame.parent_class
       IN  /\ IF parent_class # 0
              THEN /\ class_infos' =
                        [class_infos EXCEPT ![parent_class].nested_classes =
                            <<frame.id>> \o @]
                   /\ UNCHANGED module_info
              ELSE /\ module_info' =
                        [module_info EXCEPT !.classes = <<frame.id>> \o @]
                   /\ UNCHANGED class_infos
           /\ current_class' = parent_class
           /\ stack' = SubSeq(stack, 1, Len(stack) - 1)
           /\ ast' = MarkFinished("class", frame.id)
    /\ UNCHANGED <<func_infos, current_function, assigns, walk_pc,
                   returned,
                   argsVars, graphVars, fileVars, initVars>>

\* visit_ClassDef lines 66-71, after generic_visit(node)
visit_ClassDef_ExitBoth ==
    /\ walk_pc = "walking"
    /\ stack # <<>>
    /\ stack[Len(stack)].kind = "class"
    /\ LET frame == stack[Len(stack)]
           parent_class == frame.parent_class
       IN  /\ IF parent_class # 0
              THEN /\ class_infos' =
                        [class_infos EXCEPT ![parent_class].nested_classes =
                            Append(@, frame.id)]
                   /\ module_info' =
                        [module_info EXCEPT !.classes = Append(@, frame.id)]
              ELSE /\ module_info' =
                        [module_info EXCEPT !.classes = Append(@, frame.id)]
                   /\ UNCHANGED class_infos
           /\ current_class' = parent_class
           /\ stack' = SubSeq(stack, 1, Len(stack) - 1)
           /\ ast' = MarkFinished("class", frame.id)
    /\ UNCHANGED <<func_infos, current_function, assigns, walk_pc,
                   returned,
                   argsVars, graphVars, fileVars, initVars>>

visit_ClassDef_Exit ==
    /\ walk_pc = "walking"
    /\ stack # <<>>
    /\ stack[Len(stack)].kind = "class"
    /\ LET frame == stack[Len(stack)]
           parent_class == frame.parent_class
       IN  /\ IF parent_class # 0
              THEN /\ class_infos' =
                        [class_infos EXCEPT ![parent_class].nested_classes =
                            Append(@, frame.id)]
                   /\ UNCHANGED module_info
              ELSE /\ module_info' =
                        [module_info EXCEPT !.classes = Append(@, frame.id)]
                   /\ UNCHANGED class_infos
           /\ current_class' = parent_class
           /\ stack' = SubSeq(stack, 1, Len(stack) - 1)
           /\ ast' = MarkFinished("class", frame.id)
    /\ UNCHANGED <<func_infos, current_function, assigns, walk_pc,
                   returned,
                   argsVars, graphVars, fileVars, initVars>>

\* _visit_function lines 83-102, up to generic_visit(node)
_visit_function_Enter ==
    /\ CanOpenDef
    /\ \E node \in FunctionDefs :
         LET id == Len(func_infos) + 1
             decorator_list == node.decorator_list
             is_async == node.is_async
             decorators == [k \in 1..Len(decorator_list) |->
                               _unparse_node(decorator_list[k])[1]]
             func_info == FunctionInfo("f" \o ToString(id), is_async, decorators)
         IN  /\ func_infos' = Append(func_infos, func_info)
             /\ stack' = Append(stack, [kind |-> "func", id |-> id,
                                        decorator_list |-> decorator_list])
             /\ current_function' = id
             /\ ast' = Append(ast, [kind |-> "func", id |-> id,
                                    decorator_list |-> decorator_list,
                                    encl_class |-> InnermostOpen("class"),
                                    encl_func |-> InnermostOpen("func"),
                                    parent_kind |-> IF stack = <<>> THEN "module"
                                                    ELSE stack[Len(stack)].kind,
                                    parent_id |-> IF stack = <<>> THEN 0
                                                  ELSE stack[Len(stack)].id,
                                    finished |-> FALSE])
    /\ UNCHANGED <<module_info, class_infos, current_class, assigns, walk_pc,
                   returned,
                   argsVars, graphVars, fileVars, initVars>>

\* _visit_function lines 104-124, after generic_visit(node)
_visit_function_Exit ==
    /\ walk_pc = "walking"
    /\ stack # <<>>
    /\ stack[Len(stack)].kind = "func"
    /\ LET frame == stack[Len(stack)]
           f == frame.id
           type == MethodType(frame.decorator_list)
       IN  /\ IF current_class # 0
              THEN /\ func_infos' = [func_infos EXCEPT ![f].type = type]
                   /\ class_infos' =
                        IF type = "CLASS_FUNC"
                        THEN [class_infos EXCEPT ![current_class].class_methods =
                                 Append(@, f)]
                        ELSE IF type = "STATIC_FUNC"
                        THEN [class_infos EXCEPT ![current_class].static_methods =
                                 Append(@, f)]
                        ELSE [class_infos EXCEPT ![current_class].instance_methods =
                                 Append(@, f)]
                   /\ UNCHANGED module_info
              ELSE /\ module_info' =
                        [module_info EXCEPT !.functions = Append(@, f)]
                   /\ UNCHANGED <<func_infos, class_infos>>
           /\ current_function' = 0
           /\ stack' = SubSeq(stack, 1, Len(stack) - 1)
           /\ ast' = MarkFinished("func", f)
    /\ UNCHANGED <<current_class, assigns, walk_pc, returned,
                   argsVars, graphVars, fileVars, initVars>>

\* _parse_assignment lines 256-272: a constant goes to the current class or the
\* module, a variable to the current function, else the current class, else the
\* module
StoreAssignment(var_name, annotation, value) ==
    IF isupper(var_name)
    THEN /\ IF current_class # 0
            THEN /\ class_infos' =
                      [class_infos EXCEPT ![current_class].class_constants =
                          DictSet(@, var_name, value)]
                 /\ UNCHANGED module_info
            ELSE /\ module_info' =
                      [module_info EXCEPT !.constants = DictSet(@, var_name, value)]
                 /\ UNCHANGED class_infos
         /\ UNCHANGED func_infos
    ELSE LET var_info == VariableInfo(var_name, annotation, value)
         IN  IF current_function # 0
             THEN /\ func_infos' =
                       [func_infos EXCEPT ![current_function].variables =
                           Append(@, var_info)]
                  /\ UNCHANGED <<class_infos, module_info>>
             ELSE IF current_class # 0
             THEN /\ class_infos' =
                       [class_infos EXCEPT ![current_class].class_variables =
                           Append(@, var_info)]
                  /\ UNCHANGED <<func_infos, module_info>>
             ELSE /\ module_info' =
                       [module_info EXCEPT !.variables = Append(@, var_info)]
                  /\ UNCHANGED <<class_infos, func_infos>>

\* the statement's place in the file, kept with every single-name assignment
AssignPlace(var_name) ==
    [name |-> var_name,
     top_kind |-> IF stack = <<>> THEN "module" ELSE stack[Len(stack)].kind,
     top_id |-> IF stack = <<>> THEN 0 ELSE stack[Len(stack)].id,
     encl_class |-> InnermostOpen("class"),
     encl_func |-> InnermostOpen("func")]

\* _parse_assignment lines 242-254: the early returns and the extracted fields
_parse_assignment(node, is_annotated) ==
    IF is_annotated
    THEN IF node.target.node # "Name"
         THEN UNCHANGED <<module_info, class_infos, func_infos, assigns>>
         ELSE /\ StoreAssignment(node.target.id,
                                 _unparse_node(node.annotation),
                                 _unparse_node(node.value))
              /\ assigns' = Append(assigns, AssignPlace(node.target.id))
    ELSE IF Len(node.targets) # 1 \/ node.targets[1].node # "Name"
         THEN UNCHANGED <<module_info, class_infos, func_infos, assigns>>
         ELSE /\ StoreAssignment(node.targets[1].id, None, _unparse_node(node.value))
              /\ assigns' = Append(assigns, AssignPlace(node.targets[1].id))

\* statements met so far, whether recorded or ignored
CanAssign ==
    /\ walk_pc = "walking"
    /\ Len(assigns) < MaxAssigns

\* visit_Assign
visit_Assign ==
    /\ CanAssign
    /\ \E node \in AssignNodes : _parse_assignment(node, FALSE)
    /\ UNCHANGED <<current_class, current_function, stack, ast, walk_pc,
                   returned,
                   argsVars, graphVars, fileVars, initVars>>

\* visit_AnnAssign
visit_AnnAssign ==
    /\ CanAssign
    /\ \E node \in AnnAssignNodes : _parse_assignment(node, TRUE)
    /\ UNCHANGED <<current_class, current_function, stack, ast, walk_pc,
                   returned,
                   argsVars, graphVars, fileVars, initVars>>

ArgsIdle ==
    /\ args_node = [posonlyargs |-> <<>>, args |-> <<>>, defaults |-> <<>>,
                    vararg |-> NoneNode, kwonlyargs |-> <<>>, kw_defaults |-> <<>>,
                    kwarg |-> NoneNode]
    /\ args_info = FunctionArgsInfo
    /\ args_parsed = FALSE

\* _visit_function line 83: args_info = self._parse_args(node.args)
ParseArgs ==
    /\ ~args_parsed
    /\ args_info' = _parse_args(args_node)
    /\ args_parsed' = TRUE
    /\ UNCHANGED <<args_node, walkVars, graphVars, fileVars, initVars>>

(***************************************************************************)
(* The graph constructor: BaseGraphConverter.convert driving the methods of *)
(* Neo4JGraphConverter.  Module names and import names are strings whose    *)
(* characters matter (`in` is a substring test), so they are tuples of      *)
(* characters; class and function names are only compared for equality.     *)
(* The store is py2neo's Graph: create(node) adds the node under a fresh    *)
(* identity, create(Relationship(a, t, b)) matches both end nodes by        *)
(* identity and adds the relationship, delete_all() removes everything.     *)
(***************************************************************************)
MaxModules == 2     \* modules in the list handed to convert
MaxConverts == 2    \* convert calls made against one store

\* Python `s in t` on strings
IsSubstring(s, t) ==
    \E off \in 0..(Len(t) - Len(s)) : SubSeq(t, off + 1, off + Len(s)) = s

\* an insertion-ordered dict: a sequence of [key, value] without repeated keys
ODictHas(d, key) == \E k \in 1..Len(d) : d[k].key = key
ODictGet(d, key) == d[CHOOSE k \in 1..Len(d) : d[k].key = key].value
ODictPut(d, key, value) ==
    IF ODictHas(d, key)
    THEN [k \in 1..Len(d) |-> IF d[k].key = key THEN [key |-> key, value |-> value]
                              ELSE d[k]]
    ELSE Append(d, [key |-> key, value |-> value])

\* the ModuleInfo, ClassInfo and FunctionInfo fields the converter reads
GFunc(name, type) == [name |-> name, type |-> type]

GClass(name, bases, instance_methods, class_methods, static_methods, nested_classes) ==
    [name |-> name, bases |-> bases, instance_methods |-> instance_methods,
     class_methods |-> class_methods, static_methods |-> static_methods,
     nested_classes |-> nested_classes]

GImportName(name, as_name) == [name |-> name, as_name |-> as_name]
GImportFrom(module) == [module |-> module]

GModule(module_name, full_qualified_name, classes, functions, from_imports, normal_imports) ==
    [module_name |-> module_name, full_qualified_name |-> full_qualified_name,
     classes |-> classes, functions |-> functions,
     imports |-> [from |-> from_imports, normal |-> normal_imports]]

\* a/u.py: class Base, class Child(Base) with a nested class Inner(Base) and a
\* repeated method name, one function, `from . import x`, `import a`
ModuleA ==
    GModule(<<"u">>, <<"a", ".", "u">>,
        << GClass("Base", <<>>, <<GFunc("run", "INSTANCE_FUNC")>>, <<>>, <<>>, <<>>),
           GClass("Child", <<"Base">>,
                  <<GFunc("run", "INSTANCE_FUNC"), GFunc("run", "INSTANCE_FUNC")>>,
                  <<GFunc("make", "CLASS_FUNC")>>,
                  <<GFunc("util", "STATIC_FUNC")>>,
                  << GClass("Inner", <<"Base">>, <<GFunc("run", "INSTANCE_FUNC")>>,
                            <<>>, <<>>, <<>>) >>) >>,
        << GFunc("helper", "INSTANCE_FUNC") >>,
        << GImportFrom(None) >>,
        << GImportName(<<"a">>, None) >>)

\* b/u.py: class Child(Base) before class Base, a nested class named like a
\* top-level one, one function, `from a.u import x`, `import u`
ModuleB ==
    GModule(<<"u">>, <<"b", ".", "u">>,
        << GClass("Child", <<"Base">>, <<GFunc("run", "INSTANCE_FUNC")>>, <<>>, <<>>,
                  << GClass("Base", <<>>, <<>>, <<>>, <<>>, <<>>) >>),
           GClass("Base", <<>>, <<GFunc("run", "INSTANCE_FUNC")>>, <<>>, <<>>, <<>>) >>,
        << GFunc("helper", "INSTANCE_FUNC") >>,
        << GImportFrom(Some(<<"a", ".", "u">>)) >>,
        << GImportName(<<"u">>, None) >>)

\* m.py: class Other(Base) with Base defined elsewhere, a function defined
\* twice, `import u as w`
ModuleM ==
    GModule(<<"m">>, <<"m">>,
        << GClass("Other", <<"Base">>, <<>>, <<>>, <<>>, <<>>) >>,
        << GFunc("main", "INSTANCE_FUNC"), GFunc("main", "INSTANCE_FUNC") >>,
        <<>>,
        << GImportName(<<"u">>, Some(<<"w">>)) >>)

\* s.py: class Base and then class Child(Base), each with a method run
ModuleS ==
    GModule(<<"s">>, <<"s">>,
        << GClass("Base", <<>>, <<GFunc("run", "INSTANCE_FUNC")>>, <<>>, <<>>, <<>>),
           GClass("Child", <<"Base">>, <<GFunc("run", "INSTANCE_FUNC")>>, <<>>, <<>>,
                  <<>>) >>,
        <<>>, <<>>, <<>>)

\* c/u.py: class Extra(Base) with Base imported from another module
ModuleC ==
    GModule(<<"u">>, <<"c", ".", "u">>,
        << GClass("Extra", <<"Base">>, <<>>, <<>>, <<>>, <<>>) >>,
        <<>>, <<>>, <<>>)

Modules == {ModuleA, ModuleB, ModuleC, ModuleM, ModuleS}

\* the lists parse_directory can hand to convert
ModuleLists == UNION {[1..n -> Modules] : n \in 0..MaxModules}

\* what the store held before the converter was built
LegacyNode == [id |-> 0, label |-> "Legacy", name |-> "old"]

\* the converter's caches and the store, threaded through one call
CurSt ==
    [module_nodes |-> module_nodes, class_nodes |-> class_nodes,
     method_nodes |-> method_nodes, function_nodes |-> function_nodes,
     db_nodes |-> db_nodes, db_edges |-> db_edges, next_id |-> next_id,
     writes |-> writes]

SetSt(st) ==
    /\ module_nodes' = st.module_nodes
    /\ class_nodes' = st.class_nodes
    /\ method_nodes' = st.method_nodes
    /\ function_nodes' = st.function_nodes
    /\ db_nodes' = st.db_nodes
    /\ db_edges' = st.db_edges
    /\ next_id' = st.next_id
    /\ writes' = st.writes

\* to_graph_node + neo4j_client.create(node): the node gets the next identity
GraphCreateNode(st, label, name, props, idx) ==
    LET node == [id |-> st.next_id, label |-> label, name |-> name, props |-> props]
    IN  [st |-> [st EXCEPT !.db_nodes = @ \cup {node},
                          !.next_id = @ + 1,
                          !.writes = Append(@, [op |-> "node", module |-> idx,
                                                id |-> node.id])],
         node |-> node]

\* neo4j_client.create(Relationship(a, rel_type, b)): both ends matched by identity
GraphCreateRelationship(st, a, rel_type, b, idx) ==
    IF a \in st.db_nodes /\ b \in st.db_nodes
    THEN [st EXCEPT !.db_edges = Append(@, [from |-> a.id, type |-> rel_type,
                                            to |-> b.id]),
                    !.writes = Append(@, [op |-> "edge", module |-> idx,
                                          from |-> a.id, type |-> rel_type,
                                          to |-> b.id])]
    ELSE st

\* `if key in self.<cache>: return self.<cache>[key]`
CacheHitNever(cache, key) == FALSE

CacheHit(cache, key) == ODictHas(cache, key)

\* Neo4JGraphConverter.clear_database
clear_databaseSkipped(st, idx) == st

clear_database(st, idx) ==
    [st EXCEPT !.db_nodes = {}, !.db_edges = <<>>,
               !.writes = Append(@, [op |-> "clear", module |-> idx])]

\* Neo4JGraphConverter.create_module_node
create_module_node(st, module_info_, idx) ==
    LET full_qualified_name == module_info_.full_qualified_name
    IN  IF CacheHit(st.module_nodes, full_qualified_name)
        THEN [st |-> st, node |-> ODictGet(st.module_nodes, full_qualified_name)]
        ELSE LET r == GraphCreateNode(st, "Module", module_info_.module_name,
                          [full_qualified_name |-> module_info_.full_qualified_name],
                          idx)
             IN  [st |-> [r.st EXCEPT !.module_nodes =
                             ODictPut(@, full_qualified_name, r.node)],
                  node |-> r.node]

\* Neo4JGraphConverter.create_class_node, with its recursion into nested classes
RECURSIVE create_class_node(_, _, _, _, _)
RECURSIVE CreateNestedClasses(_, _, _, _, _, _)
CreateNestedClasses(st, full_qualified_name, nested_classes, k, neo4j_class_node, idx) ==
    IF k > Len(nested_classes) THEN st
    ELSE CreateNestedClasses(
            create_class_node(st, full_qualified_name, nested_classes[k],
                              neo4j_class_node, idx).st,
            full_qualified_name, nested_classes, k + 1, neo4j_class_node, idx)

create_class_nodeNestedFirst(st, full_qualified_name, cls_info, parent_node, idx) ==
    LET key == <<full_qualified_name, cls_info.name>>
    IN  IF CacheHit(st.class_nodes, key)
        THEN [st |-> st, node |-> ODictGet(st.class_nodes, key)]
        ELSE LET r == GraphCreateNode(st, "Class", cls_info.name,
                          [bases |-> cls_info.bases], idx)
                 cached == [r.st EXCEPT !.class_nodes = ODictPut(@, key, r.node)]
                 nested == CreateNestedClasses(cached, full_qualified_name,
                                               cls_info.nested_classes, 1, r.node, idx)
             IN  [st |-> GraphCreateRelationship(nested, parent_node, "HAS_CLASS",
                                                 r.node, idx),
                  node |-> r.node]

create_class_node(st, full_qualified_name, cls_info, parent_node, idx) ==
    LET key == <<full_qualified_name, cls_info.name>>
    IN  IF CacheHit(st.class_nodes, key)
        THEN [st |-> st, node |-> ODictGet(st.class_nodes, key)]
        ELSE LET r == GraphCreateNode(st, "Class", cls_info.name,
                          [bases |-> cls_info.bases], idx)
                 cached == [r.st EXCEPT !.class_nodes = ODictPut(@, key, r.node)]
                 edged == GraphCreateRelationship(cached, parent_node, "HAS_CLASS",
                                                  r.node, idx)
             IN  [st |-> CreateNestedClasses(edged, full_qualified_name,
                                             cls_info.nested_classes, 1, r.node, idx),
                  node |-> r.node]

\* Neo4JGraphConverter.create_method_node
create_method_node(st, full_qualified_name, class_name, method_info, class_node, idx) ==
    LET key == <<full_qualified_name, class_name, method_info.name>>
    IN  IF CacheHit(st.method_nodes, key)
        THEN [st |-> st, node |-> ODictGet(st.method_nodes, key)]
        ELSE LET r == GraphCreateNode(st, "Method", method_info.name,
                          [type |-> method_info.type], idx)
                 cached == [r.st EXCEPT !.method_nodes = ODictPut(@, key, r.node)]
                 rel_type == "HAS_" \o method_info.type \o "_METHOD"
             IN  [st |-> GraphCreateRelationship(cached, class_node, rel_type,
                                                 r.node, idx),
                  node |-> r.node]

\* Neo4JGraphConverter.create_function_node
create_function_node(st, full_qualified_name, func_info, module_node, idx) ==
    LET key == <<full_qualified_name, func_info.name>>
    IN  IF CacheHit(st.function_nodes, key)
        THEN [st |-> st, node |-> ODictGet(st.function_nodes, key)]
        ELSE LET r == GraphCreateNode(st, "Function", func_info.name,
                          [type |-> func_info.type], idx)
                 cached == [r.st EXCEPT !.function_nodes = ODictPut(@, key, r.node)]
             IN  [st |-> GraphCreateRelationship(cached, module_node, "HAS_FUNCTION",
                                                 r.node, idx),
                  node |-> r.node]

\* Neo4JGraphConverter.handle_class_inheritance
RECURSIVE InheritFromBases(_, _, _, _, _, _)
InheritFromBases(st, full_qualified_name, bases, k, current_class_node, idx) ==
    IF k > Len(bases) THEN st
    ELSE LET base_class_key == <<full_qualified_name, bases[k]>>
             next == IF ODictHas(st.class_nodes, base_class_key)
                     THEN GraphCreateRelationship(st, current_class_node,
                              "INHERITS_FROM",
                              ODictGet(st.class_nodes, base_class_key), idx)
                     ELSE st
         IN  InheritFromBases(next, full_qualified_name, bases, k + 1,
                              current_class_node, idx)

handle_class_inheritance(st, full_qualified_name, cls_info, idx) ==
    LET class_key == <<full_qualified_name, cls_info.name>>
    IN  IF ~ODictHas(st.class_nodes, class_key) THEN st
        ELSE InheritFromBases(st, full_qualified_name, cls_info.bases, 1,
                              ODictGet(st.class_nodes, class_key), idx)

FirstMatchLast(d, name) ==
    LET hits == {k \in 1..Len(d) : IsSubstring(name, d[k].key)}
    IN  IF hits = {} THEN 0 ELSE CHOOSE k \in hits : \A j \in hits : k >= j

\* next((m for m in self.module_nodes if name in m), None): position of the
\* first matching key in insertion order, 0 for None
FirstMatch(d, name) ==
    LET hits == {k \in 1..Len(d) : IsSubstring(name, d[k].key)}
    IN  IF hits = {} THEN 0 ELSE CHOOSE k \in hits : \A j \in hits : k <= j

\* one import of handle_import_relations: the edge to the first match, if any
ImportEdge(st, imported_name, module_node, idx) ==
    LET matched_module == FirstMatch(st.module_nodes, imported_name)
    IN  IF matched_module # 0
        THEN GraphCreateRelationship(st, module_node, "IMPORTS",
                                     st.module_nodes[matched_module].value, idx)
        ELSE st

RECURSIVE FromImports(_, _, _, _, _)
FromImports(st, from_imports, k, module_node, idx) ==
    IF k > Len(from_imports) THEN st
    ELSE LET imported_module == from_imports[k].module
             next == IF imported_module = None \/ imported_module[1] = <<>>
                     THEN st
                     ELSE ImportEdge(st, imported_module[1], module_node, idx)
         IN  FromImports(next, from_imports, k + 1, module_node, idx)

RECURSIVE NormalImports(_, _, _, _, _)
NormalImports(st, normal_imports, k, module_node, idx) ==
    IF k > Len(normal_imports) THEN st
    ELSE LET normal_import == normal_imports[k]
             imported_name == IF normal_import.name # <<>> THEN normal_import.name
                              ELSE normal_import.as_name[1]
         IN  NormalImports(ImportEdge(st, imported_name, module_node, idx),
                           normal_imports, k + 1, module_node, idx)

\* Neo4JGraphConverter.handle_import_relations
handle_import_relations(st, module, module_node, idx) ==
    NormalImports(FromImports(st, module.imports.from, 1, module_node, idx),
                  module.imports.normal, 1, module_node, idx)

GraphIdle ==
    /\ rebuild = FALSE
    /\ module_nodes = <<>>
    /\ class_nodes = <<>>
    /\ method_nodes = <<>>
    /\ function_nodes = <<>>
    /\ db_nodes = {}
    /\ db_edges = <<>>
    /\ next_id = 1
    /\ conv = [pc |-> "idle", mods |-> <<>>, i |-> 0, ci |-> 0, mi |-> 0, fi |-> 0,
               module_node |-> NoneNode, class_node |-> NoneNode]
    /\ writes = <<>>
    /\ call_log = <<>>
    /\ calls = 0
    /\ history = <<>>

\* convert line 123: instance, then class, then static methods
Methods(cls_info) ==
    cls_info.instance_methods \o cls_info.class_methods \o cls_info.static_methods

\* the next statement of convert's loops from position c: finished loops are left
NextFunctionOrImports(c) ==
    IF c.fi <= Len(c.mods[c.i].functions) THEN [c EXCEPT !.pc = "function"]
    ELSE [c EXCEPT !.pc = "imports"]

NextClassOrFunction(c) ==
    IF c.ci <= Len(c.mods[c.i].classes) THEN [c EXCEPT !.pc = "class"]
    ELSE NextFunctionOrImports([c EXCEPT !.fi = 1])

NextMethodOrInheritanceSkipped(c) == [c EXCEPT !.pc = "inherit"]

NextMethodOrInheritance(c) ==
    IF c.mi <= Len(Methods(c.mods[c.i].classes[c.ci])) THEN [c EXCEPT !.pc = "method"]
    ELSE [c EXCEPT !.pc = "inherit"]

NextModuleOrReturn(c) ==
    IF c.i <= Len(c.mods) THEN [c EXCEPT !.pc = "module"]
    ELSE [c EXCEPT !.pc = "idle"]

\* what a node holds apart from the identity the store gave it
NodeContent(n) ==
    <<n.label, n.name, IF "props" \in DOMAIN n THEN n.props ELSE <<>> >>

NodeById(nodes, id) == CHOOSE n \in nodes : n.id = id

EdgeContent(nodes, e) ==
    <<e.type, NodeContent(NodeById(nodes, e.from)),
      NodeContent(NodeById(nodes, e.to))>>

\* the multiset of nodes and of edges of a graph, by label and property content
GraphContent(nodes, edges) ==
    [nodes |-> {<<c, Cardinality({n \in nodes : NodeContent(n) = c})>> :
                   c \in {NodeContent(n) : n \in nodes}},
     edges |-> {<<c, Cardinality({k \in 1..Len(edges) :
                                     EdgeContent(nodes, edges[k]) = c})>> :
                   c \in {EdgeContent(nodes, edges[k]) : k \in 1..Len(edges)}}]

\* Neo4JGraphConverter(rebuild): a new converter on the same store, as
\* ProjectLoader.load builds one for each run
Neo4JGraphConverter__init__ ==
    /\ conv.pc = "idle"
    /\ calls > 0
    /\ Len(history) < MaxConverts
    /\ rebuild' \in BOOLEAN
    /\ module_nodes' = <<>>
    /\ class_nodes' = <<>>
    /\ method_nodes' = <<>>
    /\ function_nodes' = <<>>
    /\ calls' = 0
    /\ writes' = <<>>
    /\ call_log' = <<>>
    /\ UNCHANGED <<db_nodes, db_edges, next_id, conv, history, argsVars, walkVars, fileVars,
                   initVars>>

\* convert line 105: `if not self.rebuild: return`
SkipsBuildNever == FALSE

SkipsBuild == ~rebuild

\* convert lines 100-110: the two early returns, then clear_database()
convert ==
    /\ conv.pc = "idle"
    /\ Len(history) < MaxConverts
    /\ calls' = calls + 1
    /\ history' = Append(history,
           [rebuild |-> rebuild,
            fresh |-> calls = 0,
            before |-> GraphContent(db_nodes, db_edges)])
    /\ call_log' = <<>>
    /\ LET module_infos == conv.mods
           num_modules == Len(module_infos)
       IN  IF num_modules = 0 \/ SkipsBuild
           THEN /\ writes' = <<>>
                /\ UNCHANGED <<module_nodes, class_nodes, method_nodes,
                               function_nodes, db_nodes, db_edges, next_id, conv>>
           ELSE /\ SetSt(clear_database([CurSt EXCEPT !.writes = <<>>], 0))
                /\ conv' = NextModuleOrReturn([conv EXCEPT !.i = 1])
    /\ UNCHANGED <<rebuild, argsVars, walkVars, fileVars,
                   initVars>>

Logged(op, key, hit, node) == [op |-> op, key |-> key, hit |-> hit, node |-> node]

\* convert lines 114-117: module_node = self.create_module_node(module_info)
convert_create_module_node ==
    /\ conv.pc = "module"
    /\ LET module_info_ == conv.mods[conv.i]
           r == create_module_node(CurSt, module_info_, conv.i)
       IN  /\ SetSt(r.st)
           /\ conv' = NextClassOrFunction([conv EXCEPT !.module_node = r.node,
                                                       !.ci = 1])
           /\ call_log' = Append(call_log,
                  Logged("create_module_node", module_info_.full_qualified_name,
                         ODictHas(module_nodes, module_info_.full_qualified_name),
                         r.node))
    /\ UNCHANGED <<rebuild, calls, history, argsVars, walkVars, fileVars,
                   initVars>>

\* the module name convert hands to the create_* methods (line 114)
ConvertModuleName(module_info_) == module_info_.module_name

\* convert lines 120-121: class_node = self.create_class_node(module_name, ...)
convert_create_class_node ==
    /\ conv.pc = "class"
    /\ LET module_name == ConvertModuleName(conv.mods[conv.i])
           cls_info == conv.mods[conv.i].classes[conv.ci]
           r == create_class_node(CurSt, module_name, cls_info, conv.module_node,
                                  conv.i)
       IN  /\ SetSt(r.st)
           /\ conv' = NextMethodOrInheritance([conv EXCEPT !.class_node = r.node,
                                                           !.mi = 1])
           /\ call_log' = Append(call_log,
                  Logged("create_class_node", <<module_name, cls_info.name>>,
                         ODictHas(class_nodes, <<module_name, cls_info.name>>),
                         r.node))
    /\ UNCHANGED <<rebuild, calls, history, argsVars, walkVars, fileVars,
                   initVars>>

\* convert lines 123-125: self.create_method_node(module_name, cls_info.name, ...)
convert_create_method_node ==
    /\ conv.pc = "method"
    /\ LET module_name == ConvertModuleName(conv.mods[conv.i])
           cls_info == conv.mods[conv.i].classes[conv.ci]
           method == Methods(cls_info)[conv.mi]
           r == create_method_node(CurSt, module_name, cls_info.name, method,
                                   conv.class_node, conv.i)
       IN  /\ SetSt(r.st)
           /\ conv' = NextMethodOrInheritance([conv EXCEPT !.mi = @ + 1])
           /\ call_log' = Append(call_log,
                  Logged("create_method_node",
                         <<module_name, cls_info.name, method.name>>,
                         ODictHas(method_nodes,
                                  <<module_name, cls_info.name, method.name>>),
                         r.node))
    /\ UNCHANGED <<rebuild, calls, history, argsVars, walkVars, fileVars,
                   initVars>>

\* convert line 127: self.handle_class_inheritance(module_name, cls_info)
convert_handle_class_inheritance ==
    /\ conv.pc = "inherit"
    /\ LET module_name == ConvertModuleName(conv.mods[conv.i])
           cls_info == conv.mods[conv.i].classes[conv.ci]
       IN  SetSt(handle_class_inheritance(CurSt, module_name, cls_info, conv.i))
    /\ conv' = NextClassOrFunction([conv EXCEPT !.ci = @ + 1])
    /\ UNCHANGED <<rebuild, calls, history, call_log, argsVars, walkVars, fileVars,
                   initVars>>

\* convert lines 130-131: self.create_function_node(module_name, func, module_node)
convert_create_function_node ==
    /\ conv.pc = "function"
    /\ LET module_name == ConvertModuleName(conv.mods[conv.i])
           func == conv.mods[conv.i].functions[conv.fi]
           r == create_function_node(CurSt, module_name, func, conv.module_node,
                                     conv.i)
       IN  /\ SetSt(r.st)
           /\ conv' = NextFunctionOrImports([conv EXCEPT !.fi = @ + 1])
           /\ call_log' = Append(call_log,
                  Logged("create_function_node", <<module_name, func.name>>,
                         ODictHas(function_nodes, <<module_name, func.name>>),
                         r.node))
    /\ UNCHANGED <<rebuild, calls, history, argsVars, walkVars, fileVars,
                   initVars>>

\* convert line 134: self.handle_import_relations(module_info, module_node)
convert_handle_import_relations ==
    /\ conv.pc = "imports"
    /\ SetSt(handle_import_relations(CurSt, conv.mods[conv.i], conv.module_node,
                                     conv.i))
    /\ conv' = NextModuleOrReturn([conv EXCEPT !.i = @ + 1])
    /\ UNCHANGED <<rebuild, calls, history, call_log, argsVars, walkVars, fileVars,
                   initVars>>

(***************************************************************************)
(* AppInitializer: the registry of initialisation tasks.  A task function   *)
(* is a callable that returns; functions are told apart by identity, as     *)
(* InitTask.__hash__ and __eq__ do.  Each call of add_task, task or run is   *)
(* one step; the order in which run meets the elements of the set is open.  *)
(***************************************************************************)
MaxInitCalls == 4   \* add_task, task and run calls made on the initializer

\* the task functions of the application
TaskFuncs == {"f", "g"}

\* InitTask(func=..., lazy=...): ran_completed defaults to False
InitTask(func, lazy) == [func |-> func, lazy |-> lazy, ran_completed |-> FALSE]

\* set.add with InitTask.__eq__: an element equal to one held is not added
SetAddAlways(ts, init_task) == ts \cup {init_task}

SetAdd(ts, init_task) ==
    IF \E t \in ts : t.func = init_task.func THEN ts ELSE ts \cup {init_task}

\* AppInitializer.run: the tasks whose function is called, and the set after
\* the loop
ToRun(ts, reload) == {t \in ts : reload \/ ~t.ran_completed}

AfterRun(ts, reload) ==
    {IF t \in ToRun(ts, reload) THEN [t EXCEPT !.ran_completed = TRUE] ELSE t :
        t \in ts}

\* the orders in which a loop over a set can meet its elements
Orders(S) ==
    {o \in [1..Cardinality(S) -> S] :
        \A k, l \in 1..Cardinality(S) : k # l => o[k] # o[l]}

\* the executions one run call adds to the log
Executions(order, call) ==
    [k \in 1..Len(order) |-> [func |-> order[k].func, call |-> call]]

AppIdle ==
    /\ tasks = {}
    /\ init_calls = <<>>
    /\ exec_log = <<>>

appUnchanged == UNCHANGED <<argsVars, walkVars, graphVars, fileVars>>

\* add_task lines 38-42, for a call made through `kind`
AddTask(kind, func, lazy) ==
    LET init_task == InitTask(func, lazy)
        held == SetAdd(tasks, init_task)
        call == Len(init_calls) + 1
    IN  /\ init_calls' = Append(init_calls,
               [kind |-> kind, func |-> func, lazy |-> lazy, reload |-> FALSE])
        /\ IF ~lazy
           THEN /\ tasks' = AfterRun(held, FALSE)
                /\ \E order \in Orders(ToRun(held, FALSE)) :
                      exec_log' = exec_log \o Executions(order, call)
           ELSE /\ tasks' = held
                /\ exec_log' = exec_log

\* AppInitializer.add_task
add_task ==
    /\ Len(init_calls) < MaxInitCalls
    /\ \E func \in TaskFuncs, lazy \in BOOLEAN : AddTask("add_task", func, lazy)
    /\ appUnchanged

\* AppInitializer.task: @task and @task(lazy=...) both end in
\* self.add_task(f, lazy=lazy)
task ==
    /\ Len(init_calls) < MaxInitCalls
    /\ \E func \in TaskFuncs, lazy \in BOOLEAN : AddTask("task", func, lazy)
    /\ appUnchanged

\* AppInitializer.run
run ==
    /\ Len(init_calls) < MaxInitCalls
    /\ \E reload \in BOOLEAN :
          /\ init_calls' = Append(init_calls,
                 [kind |-> "run", func |-> "", lazy |-> FALSE, reload |-> reload])
          /\ tasks' = AfterRun(tasks, reload)
          /\ \E order \in Orders(ToRun(tasks, reload)) :
                exec_log' = exec_log \o Executions(order, Len(init_calls) + 1)
    /\ appUnchanged

(***************************************************************************)
(* Source files: function bodies, module names, the directory walk.        *)
(***************************************************************************)
BodyIdle ==
    /\ src_lines = <<>>
    /\ func_node = NoneNode
    /\ body = None

PathIdle ==
    /\ path_args = NoneNode
    /\ path_result = NoneNode

LoadIdle ==
    /\ dir_files = <<>>
    /\ loader = NoneNode

FilesIdle == BodyIdle /\ PathIdle /\ LoadIdle

(***************************************************************************)
(* _get_function_body.                                                      *)
(***************************************************************************)
MaxDecorators == 1
MaxSigLines == 2
MaxBody == 2
MaxSpan == 2

\* the statements of a function body: each starts after the one before it, or,
\* in a body written after the colon of the signature, on the line where the one
\* before it ended (`a; b`)
RECURSIVE BodyStmts(_, _, _, _)
BodyStmts(spans, start, gap, same_line) ==
    IF spans = <<>> THEN <<>>
    ELSE LET end == start + Head(spans) - 1
         IN  <<[lineno |-> start, end_lineno |-> end]>>
             \o BodyStmts(Tail(spans), IF same_line THEN end ELSE end + 1 + gap,
                          gap, same_line)

\* ast.FunctionDef of a definition with d decorator lines and s signature lines
FunctionDefNode(d, s, spans, gap, same_line) ==
    [node |-> "FunctionDef", lineno |-> d + 1,
     body |-> BodyStmts(spans, IF same_line THEN d + s ELSE d + s + 1, gap,
                        same_line)]

\* the file the definition was parsed from: what each of its lines carries
SourceLines(d, s, node) ==
    LET last == PyAt(node.body, -1).end_lineno
    IN  [k \in 1..(last + 1) |->
           [no |-> k,
            carries |->
               (IF k <= d THEN {"decorator"} ELSE {})
               \cup (IF d < k /\ k <= d + s THEN {"signature"} ELSE {})
               \cup (IF \E j \in 1..Len(node.body) :
                          node.body[j].lineno <= k /\ k <= node.body[j].end_lineno
                     THEN {"body"} ELSE {})
               \cup (IF k > last THEN {"after"} ELSE {})]]

\* lines[start_lineno - 1:end_lineno]
PySlice(list, from, to) == SubSeq(list, from + 1, to)

\* PythonCodeParser._get_function_body; the text is kept as its lines
_get_function_body(lines, node) ==
    IF node.body = <<>> THEN <<>>
    ELSE LET start_lineno == PyAt(node.body, 0).lineno
             end_lineno == PyAt(node.body, -1).end_lineno
         IN  PySlice(lines, start_lineno - 1, end_lineno)

BodyLayouts ==
    {[d |-> d, s |-> s, spans |-> spans, gap |-> gap, same_line |-> same_line] :
        d \in 0..MaxDecorators, s \in 1..MaxSigLines,
        spans \in UNION {[1..n -> 1..MaxSpan] : n \in 1..MaxBody},
        gap \in 0..1, same_line \in BOOLEAN}

InitBody ==
    /\ ArgsIdle
    /\ WalkIdle
    /\ AppIdle
    /\ GraphIdle
    /\ PathIdle
    /\ LoadIdle
    /\ \E l \in BodyLayouts :
          /\ func_node = FunctionDefNode(l.d, l.s, l.spans, l.gap, l.same_line)
          /\ src_lines = SourceLines(l.d, l.s, func_node)
    /\ body = None

\* _visit_function: body=self._get_function_body(node)
GetFunctionBody ==
    /\ body = None
    /\ func_node # NoneNode
    /\ body' = Some(_get_function_body(src_lines, func_node))
    /\ UNCHANGED <<src_lines, func_node, path_args, path_result, dir_files, loader,
                   argsVars, walkVars, graphVars, initVars>>

NextBody == GetFunctionBody

SpecBody == InitBody /\ [][NextBody]_vars

(***************************************************************************)
(* ModuleInfo._get_module_name, ModuleInfo.model_construct and             *)
(* PythonCodeParser.parse_file on one path.  Strings are tuples of          *)
(* characters.                                                             *)
(***************************************************************************)
MaxDirs == 1

StartsWith(s, prefix) ==
    Len(prefix) <= Len(s) /\ SubSeq(s, 1, Len(prefix)) = prefix

\* str.replace(old, new) for a non-empty old: every occurrence, left to right
RECURSIVE Replace(_, _, _)
Replace(s, old, new) ==
    IF s = <<>> THEN <<>>
    ELSE IF StartsWith(s, old)
         THEN new \o Replace(SubSeq(s, Len(old) + 1, Len(s)), old, new)
         ELSE <<Head(s)>> \o Replace(Tail(s), old, new)

\* str.lstrip(chars)
RECURSIVE LStrip(_, _)
LStrip(s, chars) ==
    IF s # <<>> /\ Head(s) \in chars THEN LStrip(Tail(s), chars) ELSE s

\* str.rfind(ch), counted from 1; 0 when ch does not occur
LastIndexOf(s, ch) ==
    LET at == {k \in 1..Len(s) : s[k] = ch}
    IN  IF at = {} THEN 0 ELSE CHOOSE k \in at : \A j \in at : k >= j

LowerChar(c) == CASE c = "P" -> "p" [] c = "Y" -> "y" [] OTHER -> c

\* str.lower()
Lower(s) == [k \in 1..Len(s) |-> LowerChar(s[k])]

\* pathlib: PurePath.name, .suffix and .stem
PathName(path) == SubSeq(path, LastIndexOf(path, "/") + 1, Len(path))

PathSuffix(path) ==
    LET name == PathName(path)
        i == LastIndexOf(name, ".")
    IN  IF 1 < i /\ i < Len(name) THEN SubSeq(name, i, Len(name)) ELSE <<>>

PathStem(path) ==
    LET name == PathName(path)
        i == LastIndexOf(name, ".")
    IN  IF 1 < i /\ i < Len(name) THEN SubSeq(name, 1, i - 1) ELSE name

Raised(exc) == [raised |-> Some(exc)]

\* ModuleInfo._get_module_name; on_disk is what the path names:
\* "file", "dir" or "missing"
_get_module_name(project_dir, file_path, on_disk) ==
    IF file_path = <<>> THEN Raised("ValueError")
    ELSE IF on_disk = "missing" THEN Raised("FileNotFoundError")
    ELSE IF on_disk # "file" THEN Raised("ValueError")
    ELSE IF Lower(PathSuffix(file_path)) # <<".", "p", "y">> THEN Raised("ValueError")
    ELSE LET module_name == PathStem(file_path)
             full_qualified_name ==
                 Replace(Replace(LStrip(Replace(file_path, project_dir, <<>>), {"/"}),
                                 <<"/">>, <<".">>),
                         <<".", "p", "y">>, <<>>)
         IN  [raised |-> None, module_name |-> module_name,
              full_qualified_name |-> full_qualified_name]

\* ModuleInfo.model_construct(project_dir=..., file_path=...): the names are
\* computed only when both arguments are truthy
model_construct(project_dir, file_path, on_disk) ==
    LET instance == [project_dir |-> project_dir, file_path |-> file_path,
                     names |-> None]
    IN  IF project_dir # None /\ project_dir # Some(<<>>) /\ file_path # <<>>
        THEN LET r == _get_module_name(project_dir[1], file_path, on_disk)
             IN  IF r.raised # None THEN [raised |-> r.raised]
                 ELSE [raised |-> None,
                       instance |-> [instance EXCEPT !.names =
                                        Some(<<r.module_name, r.full_qualified_name>>)]]
        ELSE [raised |-> None, instance |-> instance]

\* BaseCodeParser.read_file: open(file_path).read()
read_file(file_path, on_disk) ==
    IF file_path = <<>> \/ on_disk = "missing" THEN Raised("FileNotFoundError")
    ELSE IF on_disk = "dir" THEN Raised("IsADirectoryError")
    ELSE [raised |-> None]

\* PythonCodeParser.parse_file(file_path): what it raised, whether the source
\* text was read and parsed, and the ModuleInfo it returned
parse_file(file_path, on_disk, syntax_ok) ==
    LET constructed == model_construct(None, file_path, on_disk)
        source_code == read_file(file_path, on_disk)
        failed(exc, was_read) == [raised |-> exc, read |-> was_read,
                                  parsed |-> FALSE, module |-> None]
    IN  IF constructed.raised # None THEN failed(constructed.raised, FALSE)
        ELSE IF source_code.raised # None THEN failed(source_code.raised, FALSE)
        ELSE IF ~syntax_ok THEN failed(Some("SystemExit"), TRUE)
        ELSE [raised |-> None, read |-> TRUE, parsed |-> TRUE,
              module |-> Some(constructed.instance)]

\* names of directories and files below the project root /p
DirNames == {<<"a">>, <<"p">>, <<"a", ".", "p", "y">>}
FileStems == {<<"m">>, <<"p">>}
FileSuffixes == {<<".", "p", "y">>, <<".", "P", "Y">>, <<".", "t">>, <<>>}

RECURSIVE JoinPath(_, _)
JoinPath(parts, sep) ==
    IF parts = <<>> THEN <<>>
    ELSE IF Len(parts) = 1 THEN parts[1]
    ELSE parts[1] \o sep \o JoinPath(Tail(parts), sep)

PathArgs(dirs, stem, suffix, on_disk, syntax_ok) ==
    [project_dir |-> <<"/", "p">>, dirs |-> dirs, stem |-> stem, suffix |-> suffix,
     file_path |-> JoinPath(<< <<"/", "p">> >> \o dirs \o <<stem \o suffix>>, <<"/">>),
     on_disk |-> on_disk, syntax_ok |-> syntax_ok]

PathInputs ==
    {PathArgs(dirs, stem, suffix, on_disk, syntax_ok) :
        dirs \in UNION {[1..n -> DirNames] : n \in 0..MaxDirs},
        stem \in FileStems, suffix \in FileSuffixes,
        on_disk \in {"file", "dir", "missing"}, syntax_ok \in BOOLEAN}
    \cup {[project_dir |-> <<"/", "p">>, dirs |-> <<>>, stem |-> <<>>, suffix |-> <<>>,
           file_path |-> <<>>, on_disk |-> "missing", syntax_ok |-> FALSE]}

InitPath ==
    /\ ArgsIdle
    /\ WalkIdle
    /\ AppIdle
    /\ GraphIdle
    /\ BodyIdle
    /\ LoadIdle
    /\ path_args \in PathInputs
    /\ path_result = [names |-> NoneNode, parsed_file |-> NoneNode]

\* ModuleInfo(project_dir=..., file_path=...): auto_set_module_name calls
\* _get_module_name(project_dir, file_path)
GetModuleName ==
    /\ path_args # NoneNode
    /\ path_result.names = NoneNode
    /\ path_result' = [path_result EXCEPT !.names =
           _get_module_name(path_args.project_dir, path_args.file_path,
                            path_args.on_disk)]
    /\ UNCHANGED <<path_args, src_lines, func_node, body, dir_files, loader,
                   argsVars, walkVars, graphVars, initVars>>

\* PythonCodeParser().parse_file(file_path)
CallParseFile ==
    /\ path_args # NoneNode
    /\ path_result.parsed_file = NoneNode
    /\ path_result' = [path_result EXCEPT !.parsed_file =
           parse_file(path_args.file_path, path_args.on_disk, path_args.syntax_ok)]
    /\ UNCHANGED <<path_args, src_lines, func_node, body, dir_files, loader,
                   argsVars, walkVars, graphVars, initVars>>

NextPath == GetModuleName \/ CallParseFile

SpecPath == InitPath /\ [][NextPath]_vars

(***************************************************************************)
(* ProjectLoader.load: the clone of a git project, parse_directory, then   *)
(* the relational save, then the graph convert.                            *)
(***************************************************************************)
MaxFiles == 3

\* return codes of the git clone process
ReturnCodes == {0, 1, 128}

\* what the clone would do if started: Popen fails, or the process ends with a
\* return code
CloneOutcomes ==
    {[starts |-> FALSE, return_code |-> 0]}
    \cup {[starts |-> TRUE, return_code |-> rc] : rc \in ReturnCodes}

\* the projects a loader is built for (__init__ lines 32-36): a local path, or
\* a git URL whose storage path exists or not
Projects ==
    {[project_type |-> "local", path_exists |-> TRUE,
      clone |-> [starts |-> FALSE, return_code |-> 0]]}
    \cup {[project_type |-> "git", path_exists |-> e, clone |-> c] :
             e \in BOOLEAN, c \in CloneOutcomes}

\* ProjectLoader._load_from_git: whether a clone was started, whether its
\* success was logged (line 105), and what the call raised: the raise of line
\* 108 follows the `if return_code == 0` statement, it is not its else branch
_load_from_git(project) ==
    IF project.path_exists
    THEN [started |-> FALSE, logged_success |-> FALSE, raised |-> None]
    ELSE IF ~project.clone.starts
    THEN [started |-> FALSE, logged_success |-> FALSE, raised |-> Some("Exception")]
    ELSE LET return_code == project.clone.return_code
         IN  [started |-> TRUE, logged_success |-> return_code = 0,
              raised |-> Some("Exception")]

\* positional parameters of PythonCodeParser.parse_file besides self
parse_file_Arity == 1

\* self.parse_file(*args): a call with the wrong number of arguments raises
\* TypeError before the body runs
CallBoundParseFile(args, on_disk, syntax_ok) ==
    IF Len(args) # parse_file_Arity
    THEN [raised |-> Some("TypeError"), read |-> FALSE, parsed |-> FALSE,
          module |-> None]
    ELSE parse_file(args[1], on_disk, syntax_ok)

\* any(file.endswith(suffix) for suffix in self.file_suffixes), with ['.py']
AcceptedSuffix(file) == file.suffix = <<".", "p", "y">>

\* parse_directory has no try/except: what parse_file raises leaves it at once
PropagatesNever(outcome) == FALSE

Propagates(outcome) == outcome.raised # None

\* the files of a project directory that os.walk yields
WalkedFiles ==
    {[stem |-> <<"m">>, suffix |-> suffix, syntax_ok |-> syntax_ok] :
        suffix \in {<<".", "p", "y">>, <<".", "t">>}, syntax_ok \in BOOLEAN}

InitLoad ==
    /\ ArgsIdle
    /\ WalkIdle
    /\ AppIdle
    /\ GraphIdle
    /\ BodyIdle
    /\ PathIdle
    /\ dir_files \in UNION {[1..n -> WalkedFiles] : n \in 0..MaxFiles}
    /\ \E project \in Projects :
          loader = [pc |-> "start", i |-> 0, module_infos |-> <<>>, called |-> <<>>,
                    parsed |-> {}, raised |-> None, returned |-> None,
                    persisted |-> FALSE, converted |-> FALSE,
                    project |-> project, git |-> None]

loadUnchanged ==
    UNCHANGED <<dir_files, src_lines, func_node, body, path_args, path_result,
                argsVars, walkVars, graphVars, initVars>>

\* ProjectLoader.load lines 48-52: self._load_from_git() for a git project,
\* then PythonCodeParser().parse_directory(project_storage_path)
load ==
    /\ loader # NoneNode
    /\ loader.pc = "start"
    /\ IF loader.project.project_type = "git"
       THEN LET r == _load_from_git(loader.project)
            IN  IF r.raised # None
                THEN loader' = [loader EXCEPT !.pc = "aborted", !.git = Some(r),
                                              !.raised = r.raised]
                ELSE loader' = [loader EXCEPT !.pc = "walking", !.i = 1,
                                              !.git = Some(r)]
       ELSE loader' = [loader EXCEPT !.pc = "walking", !.i = 1]
    /\ loadUnchanged

\* parse_directory, one file of the walk:
\* module_info = self.parse_file(dir_path, file_path); module_infos.append(...)
parse_directory_File ==
    /\ loader # NoneNode
    /\ loader.pc = "walking"
    /\ loader.i <= Len(dir_files)
    /\ LET file == dir_files[loader.i]
           dir_path == <<"/", "p">>
           file_path == dir_path \o <<"/">> \o file.stem \o file.suffix
       IN  IF ~AcceptedSuffix(file)
           THEN loader' = [loader EXCEPT !.i = @ + 1]
           ELSE LET outcome == CallBoundParseFile(<<dir_path, file_path>>, "file",
                                                  file.syntax_ok)
                    after == [loader EXCEPT
                                !.called = Append(@, loader.i),
                                !.parsed = IF outcome.parsed THEN @ \cup {loader.i}
                                           ELSE @]
                IN  IF Propagates(outcome)
                    THEN loader' = [after EXCEPT !.pc = "aborted",
                                                 !.raised = outcome.raised]
                    ELSE loader' = [after EXCEPT
                                      !.module_infos = Append(@, outcome.module),
                                      !.i = @ + 1]
    /\ loadUnchanged

\* parse_directory: return module_infos
parse_directory_Return ==
    /\ loader # NoneNode
    /\ loader.pc = "walking"
    /\ loader.i > Len(dir_files)
    /\ loader' = [loader EXCEPT !.pc = "persist",
                                !.returned = Some(loader.module_infos)]
    /\ loadUnchanged

\* ProjectLoader.load: MySQLPersistentSaver(rebuild).persistence(..., module_infos)
load_persistence ==
    /\ loader # NoneNode
    /\ loader.pc = "persist"
    /\ loader' = [loader EXCEPT !.pc = "convert", !.persisted = TRUE]
    /\ loadUnchanged

\* ProjectLoader.load: Neo4JGraphConverter(rebuild).convert(module_infos)
load_convert ==
    /\ loader # NoneNode
    /\ loader.pc = "convert"
    /\ loader' = [loader EXCEPT !.pc = "done", !.converted = TRUE]
    /\ loadUnchanged

NextLoad ==
    \/ load
    \/ parse_directory_File
    \/ parse_directory_Return
    \/ load_persistence
    \/ load_convert

SpecLoad == InitLoad /\ [][NextLoad]_vars

(***************************************************************************)
(* Specifications.                                                          *)
(***************************************************************************)
InitArgs ==
    /\ args_node \in ArgsNodes
    /\ args_info = FunctionArgsInfo
    /\ args_parsed = FALSE
    /\ WalkIdle
    /\ AppIdle
    /\ GraphIdle
    /\ FilesIdle

NextArgs == ParseArgs

SpecArgs == InitArgs /\ [][NextArgs]_vars

\* BaseCodeParser.__init__: an empty ModuleInfo and no context
InitWalk ==
    /\ ArgsIdle
    /\ WalkIdle
    /\ AppIdle
    /\ GraphIdle
    /\ FilesIdle

NextWalk ==
    \/ ParseFile
    \/ visit_ClassDef_Enter
    \/ visit_ClassDef_Exit
    \/ _visit_function_Enter
    \/ _visit_function_Exit
    \/ visit_Assign
    \/ visit_AnnAssign
    \/ ParseFileReturn

SpecWalk == InitWalk /\ [][NextWalk]_vars

\* one parser instance asked to parse several files, one after the other
NextReuse ==
    \/ ParseFile
    \/ ParseFileAgain
    \/ ParseFileSyntaxError
    \/ ParseFileRaises
    \/ visit_ClassDef_Enter
    \/ visit_ClassDef_Exit
    \/ _visit_function_Enter
    \/ _visit_function_Exit
    \/ visit_Assign
    \/ visit_AnnAssign
    \/ ParseFileReturn

SpecReuse == InitWalk /\ [][NextReuse]_vars

\* AppInitializer(): no tasks
InitApp ==
    /\ ArgsIdle
    /\ WalkIdle
    /\ AppIdle
    /\ GraphIdle
    /\ FilesIdle

NextApp == add_task \/ task \/ run

SpecApp == InitApp /\ [][NextApp]_vars

(***************************************************************************)
(* Claims about _parse_args (SpecArgs).                                     *)
(***************************************************************************)
\* the parameter at 0-based index i of posonlyargs followed by args
CombinedParam(i) ==
    IF i < Len(args_info.pos_only_args)
    THEN args_info.pos_only_args[i + 1]
    ELSE args_info.args[i - Len(args_info.pos_only_args) + 1]

\* C1: positional-only and normal parameters form one sequence of length N that
\* shares the defaults list of length D: the parameter at combined index i has a
\* default iff i >= N - D, and it is the text of defaults[i - (N - D)].
C1_CombinedRightAlignment ==
    args_parsed =>
        LET N == Len(args_node.posonlyargs) + Len(args_node.args)
            D == Len(args_node.defaults)
        IN  /\ Len(args_info.pos_only_args) = Len(args_node.posonlyargs)
            /\ Len(args_info.args) = Len(args_node.args)
            /\ \A i \in 0..(N - 1) :
                  CombinedParam(i).default =
                      IF i >= N - D
                      THEN Some(ToString(args_node.defaults[i - (N - D) + 1].value))
                      ELSE None

\* C1 witness: defaults spill across the boundary between the two groups
C1_Witness ==
    /\ args_parsed
    /\ Len(args_node.posonlyargs) = 2
    /\ Len(args_node.args) = 2
    /\ Len(args_node.defaults) = 3
    /\ args_info.pos_only_args[1].default = None
    /\ args_info.pos_only_args[2].default = Some("1")
    /\ args_info.args[2].default = Some("3")

\* C2: keyword-only parameter i has a default iff kw_defaults[i] is not the
\* placeholder, and then it is the text of that entry, whatever the other
\* parameters and the positional defaults are; *args and **kwargs have none.
C2_KwOnlyParallelDefaults ==
    args_parsed =>
        /\ Len(args_info.kw_only_args) = Len(args_node.kwonlyargs)
        /\ \A k \in 1..Len(args_node.kwonlyargs) :
              args_info.kw_only_args[k].default =
                  IF args_node.kw_defaults[k] = NoneNode THEN None
                  ELSE Some(ToString(args_node.kw_defaults[k].value))
        /\ (args_node.vararg # NoneNode) =>
              /\ args_info.var_args # NoneNode
              /\ args_info.var_args.default = None
        /\ (args_node.kwarg # NoneNode) =>
              /\ args_info.kw_args # NoneNode
              /\ args_info.kw_args.default = None

\* C2 witness: f(a=1, *args, c, d=2, **kwargs): c has no default, d has one
C2_Witness ==
    /\ args_parsed
    /\ args_node.vararg # NoneNode
    /\ args_node.kwarg # NoneNode
    /\ Len(args_node.defaults) = 1
    /\ Len(args_node.kwonlyargs) = 2
    /\ args_node.kw_defaults[1] = NoneNode
    /\ args_info.kw_only_args[1].default = None
    /\ args_info.kw_only_args[2].default = Some("12")

(***************************************************************************)
(* Claims about the walk (SpecWalk).                                        *)
(***************************************************************************)
\* an identifier that is entirely uppercase: no lowercase letter, some uppercase
AllUppercase(s) ==
    /\ \A k \in 1..Len(s) : s[k] \notin {"a", "b"}
    /\ \E k \in 1..Len(s) : s[k] \in {"A", "B"}

\* names of a variables sequence
VarNames(variables) == {variables[k].name : k \in 1..Len(variables)}

\* every variables sequence of the file: <<owner kind, owner id, position>>
AllVariableSlots ==
    {<<"module", 0, k>> : k \in 1..Len(module_info.variables)}
    \cup UNION {{<<"class", c, k>> : k \in 1..Len(class_infos[c].class_variables)} :
                  c \in 1..Len(class_infos)}
    \cup UNION {{<<"func", f, k>> : k \in 1..Len(func_infos[f].variables)} :
                  f \in 1..Len(func_infos)}

AllVariableNames ==
    VarNames(module_info.variables)
    \cup UNION {VarNames(class_infos[c].class_variables) : c \in 1..Len(class_infos)}
    \cup UNION {VarNames(func_infos[f].variables) : f \in 1..Len(func_infos)}

AllConstantNames ==
    DOMAIN module_info.constants
    \cup UNION {DOMAIN class_infos[c].class_constants : c \in 1..Len(class_infos)}

\* C3: a single-name assignment is stored as a constant iff its identifier is
\* entirely uppercase and is otherwise appended to a variables sequence; every
\* key of a module or class constants mapping is all-uppercase and no scope
\* holds one name both as a constant and as a variable.
C3_ConstantIffUppercase ==
    /\ \A k \in 1..Len(assigns) :
          IF AllUppercase(assigns[k].name)
          THEN /\ assigns[k].name \in AllConstantNames
               /\ assigns[k].name \notin AllVariableNames
          ELSE /\ assigns[k].name \in AllVariableNames
               /\ assigns[k].name \notin AllConstantNames
    /\ Cardinality(AllVariableSlots) =
          Cardinality({k \in 1..Len(assigns) : ~AllUppercase(assigns[k].name)})
    /\ \A name \in AllConstantNames : AllUppercase(name)
    /\ DOMAIN module_info.constants \cap VarNames(module_info.variables) = {}
    /\ \A c \in 1..Len(class_infos) :
          DOMAIN class_infos[c].class_constants
              \cap VarNames(class_infos[c].class_variables) = {}

\* C3 witness: one class scope holds the constant A_ and the mixed-case variable Ab
C3_Witness ==
    \E c \in 1..Len(class_infos) :
        /\ DOMAIN class_infos[c].class_constants = {<<"A", "_">>}
        /\ VarNames(class_infos[c].class_variables) = {<<"A", "b">>}

\* `new` is `old` with one VariableInfo of that name appended
AppendedTo(old, new, name) ==
    /\ Len(new) = Len(old) + 1
    /\ SubSeq(new, 1, Len(old)) = old
    /\ new[Len(new)].name = name

ClassVariables(infos) == [c \in 1..Len(infos) |-> infos[c].class_variables]
FuncVariables(infos) == [f \in 1..Len(infos) |-> infos[f].variables]

\* C4: a non-uppercase single-name assignment that is a statement of a function
\* body is appended to the variables of that function (the innermost one still
\* being walked) and to no class's or module's variables; outside every function
\* but inside a class it goes to the innermost enclosing class; at module level
\* to the Module.
C4_InnermostContextRouting ==
    [][ Len(assigns') = Len(assigns) + 1 =>
          LET e == assigns'[Len(assigns')]
          IN  ~AllUppercase(e.name) =>
                IF e.top_kind = "func"
                THEN /\ AppendedTo(func_infos[e.top_id].variables,
                                   func_infos'[e.top_id].variables, e.name)
                     /\ ClassVariables(class_infos') = ClassVariables(class_infos)
                     /\ module_info'.variables = module_info.variables
                ELSE IF e.encl_func = 0 /\ e.encl_class # 0
                THEN /\ AppendedTo(class_infos[e.encl_class].class_variables,
                                   class_infos'[e.encl_class].class_variables, e.name)
                     /\ FuncVariables(func_infos') = FuncVariables(func_infos)
                     /\ module_info'.variables = module_info.variables
                ELSE IF e.top_kind = "module"
                THEN /\ AppendedTo(module_info.variables, module_info'.variables, e.name)
                     /\ FuncVariables(func_infos') = FuncVariables(func_infos)
                     /\ ClassVariables(class_infos') = ClassVariables(class_infos)
                ELSE TRUE ]_vars

\* the containers a class object sits in: the Module's classes or the
\* nestedClasses of a class, one element per occurrence
ClassContainers(c) ==
    {<<"module", 0, k>> : k \in {j \in 1..Len(module_info.classes) :
                                    module_info.classes[j] = c}}
    \cup UNION {{<<"class", d, k>> :
                    k \in {j \in 1..Len(class_infos[d].nested_classes) :
                              class_infos[d].nested_classes[j] = c}} :
                  d \in 1..Len(class_infos)}

\* C5: once the file is fully walked, every class definition is in exactly one
\* container: the Module's classes or the nestedClasses of exactly one class.
C5_ClassInExactlyOneContainer ==
    walk_pc = "done" =>
        \A c \in 1..Len(class_infos) : Cardinality(ClassContainers(c)) = 1

\* C5 witness: a fully walked file with a class nested in a top-level class
C5_Witness ==
    /\ walk_pc = "done"
    /\ Len(class_infos) = 2
    /\ module_info.classes = <<1>>
    /\ class_infos[1].nested_classes = <<2>>

\* the bare name or trailing attribute name of a decorator, "" if it has neither
DecoratorName(d) ==
    IF d.node = "Name" THEN d.id ELSE IF d.node = "Attribute" THEN d.attr ELSE ""

\* the kind the claim gives a method with these decorators
ClaimedKind(decorator_list) ==
    LET names == {DecoratorName(decorator_list[k]) : k \in 1..Len(decorator_list)}
    IN  IF "classmethod" \in names THEN "CLASS_FUNC"
        ELSE IF "staticmethod" \in names THEN "STATIC_FUNC"
        ELSE "INSTANCE_FUNC"

Occurrences(seq, x) == Cardinality({k \in 1..Len(seq) : seq[k] = x})

MethodList(c, kind) ==
    IF kind = "CLASS_FUNC" THEN class_infos[c].class_methods
    ELSE IF kind = "STATIC_FUNC" THEN class_infos[c].static_methods
    ELSE class_infos[c].instance_methods

FunctionKinds == {"CLASS_FUNC", "STATIC_FUNC", "INSTANCE_FUNC"}

\* C6: a function finishing while a class is the current class is appended to
\* exactly one of that class's method lists, the one of its kind (class if a
\* decorator is named classmethod, else static if one is named staticmethod, else
\* instance); finishing with no current class it is appended to the Module's
\* functions whatever its decorators.
C6_MethodKindByDecorator ==
    \A i \in 1..Len(ast) :
        (ast[i].kind = "func" /\ ast[i].finished) =>
            LET f == ast[i].id
                c == ast[i].encl_class
                kind == ClaimedKind(ast[i].decorator_list)
            IN  IF c # 0
                THEN /\ func_infos[f].type = kind
                     /\ Occurrences(MethodList(c, kind), f) = 1
                     /\ \A d \in 1..Len(class_infos), k \in FunctionKinds :
                           (d # c \/ k # kind) => Occurrences(MethodList(d, k), f) = 0
                     /\ Occurrences(module_info.functions, f) = 0
                ELSE /\ Occurrences(module_info.functions, f) = 1
                     /\ \A d \in 1..Len(class_infos), k \in FunctionKinds :
                           Occurrences(MethodList(d, k), f) = 0

\* C6 witness: a method decorated with both staticmethod and classmethod has
\* finished and sits in classMethods
C6_Witness ==
    /\ Len(class_infos) = 1
    /\ Len(func_infos) = 1
    /\ func_infos[1].decorators = <<"staticmethod", "classmethod">>
    /\ class_infos[1].class_methods = <<1>>
    /\ func_infos[1].type = "CLASS_FUNC"

\* BaseGraphConverter.__init__(rebuild): empty caches; the store may already
\* hold a graph; module_infos is the list every convert call of the run is given
InitGraph ==
    /\ ArgsIdle
    /\ WalkIdle
    /\ AppIdle
    /\ FilesIdle
    /\ rebuild \in BOOLEAN
    /\ module_nodes = <<>>
    /\ class_nodes = <<>>
    /\ method_nodes = <<>>
    /\ function_nodes = <<>>
    /\ db_nodes \in {{}, {LegacyNode}}
    /\ db_edges = <<>>
    /\ next_id = 1
    /\ \E module_infos \in ModuleLists :
          conv = [pc |-> "idle", mods |-> module_infos, i |-> 0, ci |-> 0, mi |-> 0,
                  fi |-> 0, module_node |-> NoneNode, class_node |-> NoneNode]
    /\ writes = <<>>
    /\ call_log = <<>>
    /\ calls = 0
    /\ history = <<>>

NextGraph ==
    \/ Neo4JGraphConverter__init__
    \/ convert
    \/ convert_create_module_node
    \/ convert_create_class_node
    \/ convert_create_method_node
    \/ convert_handle_class_inheritance
    \/ convert_create_function_node
    \/ convert_handle_import_relations

SpecGraph == InitGraph /\ [][NextGraph]_vars

(***************************************************************************)
(* Claims about convert and the node constructors.                         *)
(***************************************************************************)

Caches == <<module_nodes, class_nodes, method_nodes, function_nodes>>

\* C7: when the rebuild flag is false, convert is a no-op for every module
\* list: the store is not cleared, no node or edge is written, and the four
\* identity caches are left unchanged.
C7_NoRebuildIsNoOp ==
    [][~rebuild => /\ UNCHANGED <<db_nodes, db_edges>>
                   /\ UNCHANGED Caches
                   /\ writes' = <<>>]_vars

\* a convert call on a non-empty list with rebuild false has returned, and the
\* graph the store held before is still there
C7_Witness ==
    /\ ~rebuild
    /\ calls > 0
    /\ conv.pc = "idle"
    /\ conv.mods # <<>>
    /\ db_nodes = {LegacyNode}

ClearPositions == {k \in 1..Len(writes) : writes[k].op = "clear"}

\* the clear of the current call happened exactly once and before every write
ClearedOnceAndFirst == ClearPositions = {1}

\* all writes for module k precede all writes for module k+1
WritesInInputOrder ==
    \A k, l \in 1..Len(writes) : k < l => writes[k].module <= writes[l].module

\* C8 as stated: when the rebuild flag is true, for every module list passed
\* to convert, the clear of the store is performed exactly once and before any
\* node or edge write of that call, and the modules are then processed strictly
\* in input order.
C8_ClearOnceForEveryList ==
    (rebuild /\ calls > 0) => (ClearedOnceAndFirst /\ WritesInInputOrder)

\* C8: when the rebuild flag is true, for every non-empty module list passed to
\* convert, the clear of the store is performed exactly once and before any
\* node or edge write of that call, and the modules are processed strictly in
\* input order; for an empty list the call returns without clearing or writing.
C8_ClearOnceForNonEmptyList ==
    (rebuild /\ calls > 0) =>
        IF conv.mods # <<>>
        THEN ClearedOnceAndFirst /\ WritesInInputOrder
        ELSE writes = <<>> /\ conv.pc = "idle"

\* a rebuild over two modules has returned, having written for both of them
C8_Witness ==
    /\ rebuild
    /\ calls > 0
    /\ conv.pc = "idle"
    /\ Len(conv.mods) = 2
    /\ \E k, l \in 1..Len(writes) : writes[k].module = 1 /\ writes[l].module = 2

CreateOps ==
    {"create_module_node", "create_class_node", "create_method_node",
     "create_function_node"}

ContainmentTypes ==
    {"HAS_CLASS", "HAS_FUNCTION", "HAS_INSTANCE_FUNC_METHOD",
     "HAS_CLASS_FUNC_METHOD", "HAS_STATIC_FUNC_METHOD"}

ContainmentEdgesTo(n) ==
    {k \in 1..Len(db_edges) :
        db_edges[k].to = n.id /\ db_edges[k].type \in ContainmentTypes}

\* calls of one constructor with the same identity key return the same node
SameKeySameNode ==
    \A k, l \in 1..Len(call_log) :
        (call_log[k].op = call_log[l].op /\ call_log[k].key = call_log[l].key)
            => call_log[k].node = call_log[l].node

\* a constructor call that found its key in the cache wrote nothing
HitWritesNothing ==
    (Len(call_log') = Len(call_log) + 1 /\ call_log'[Len(call_log')].hit)
        => UNCHANGED <<db_nodes, db_edges, writes>>

ExactlyOneContainmentEdge ==
    \A n \in db_nodes :
        /\ n.label \in {"Class", "Method", "Function"}
              => Cardinality(ContainmentEdgesTo(n)) = 1
        /\ n.label = "Module" => ContainmentEdgesTo(n) = {}

\* C9: for each of create_module_node, create_class_node, create_method_node
\* and create_function_node, calling it twice within one run with the same
\* identity key returns the same node both times; the second call writes no
\* node and no edge, so each created node has exactly one containment edge
\* (Module nodes have none).
C9_DedupByIdentityKey ==
    /\ [](SameKeySameNode /\ ExactlyOneContainmentEdge)
    /\ [][HitWritesNothing]_vars

\* one convert call has called each of the four constructors a second time
\* with a key it had already been called with
C9_Witness ==
    /\ db_nodes # {}
    /\ \A op \in CreateOps :
          \E k, l \in 1..Len(call_log) :
             /\ k < l
             /\ call_log[k].op = op /\ call_log[l].op = op
             /\ call_log[k].key = call_log[l].key
             /\ ~call_log[k].hit /\ call_log[l].hit

ModuleNodeOf(m) == ODictGet(module_nodes, m.full_qualified_name)

\* the nodes with this label and name that hang under parent by a containment edge
ChildrenOf(parent, label, name) ==
    {n \in db_nodes :
        /\ n.label = label /\ n.name = name
        /\ \E k \in ContainmentEdgesTo(n) : db_edges[k].from = parent.id}

HasOwn(parent_a, parent_b, label, name) ==
    \E a \in ChildrenOf(parent_a, label, name) :
        \E b \in ChildrenOf(parent_b, label, name) : a # b

OwnClassNode(m, cls_info) ==
    CHOOSE n \in ChildrenOf(ModuleNodeOf(m), "Class", cls_info.name) : TRUE

\* C10: Class, Method and Function node identity is keyed by the owning
\* module's qualified name: for any two modules in one convert run that have
\* distinct qualified names, a same-named top-level class, method or
\* module-level function in each module gets its own distinct node with its own
\* containment edge to its own parent.
C10_IdentityByQualifiedName ==
    (rebuild /\ calls = 1 /\ conv.pc = "idle") =>
        \A i, j \in 1..Len(conv.mods) :
            LET a == conv.mods[i]
                b == conv.mods[j]
            IN  a.full_qualified_name # b.full_qualified_name =>
                  /\ \A f \in 1..Len(a.functions), g \in 1..Len(b.functions) :
                        a.functions[f].name = b.functions[g].name =>
                           HasOwn(ModuleNodeOf(a), ModuleNodeOf(b), "Function",
                                  a.functions[f].name)
                  /\ \A c \in 1..Len(a.classes), d \in 1..Len(b.classes) :
                        a.classes[c].name = b.classes[d].name =>
                           /\ HasOwn(ModuleNodeOf(a), ModuleNodeOf(b), "Class",
                                     a.classes[c].name)
                           /\ \A x \in 1..Len(Methods(a.classes[c])),
                                 y \in 1..Len(Methods(b.classes[d])) :
                                 Methods(a.classes[c])[x].name
                                       = Methods(b.classes[d])[y].name =>
                                    HasOwn(OwnClassNode(a, a.classes[c]),
                                           OwnClassNode(b, b.classes[d]), "Method",
                                           Methods(a.classes[c])[x].name)

\* the first convert call of a converter in rebuild mode has returned
FirstRebuildDone == rebuild /\ calls = 1 /\ conv.pc = "idle"

\* a class list with everything nested in it, at any depth
RECURSIVE ClassesWithin(_)
ClassesWithin(classes) ==
    IF classes = <<>> THEN {}
    ELSE {Head(classes)} \cup ClassesWithin(Head(classes).nested_classes)
                         \cup ClassesWithin(Tail(classes))

ClassKey(m, cls_info) == <<ConvertModuleName(m), cls_info.name>>

HasClassNode(m, cls_info) ==
    /\ ODictHas(class_nodes, ClassKey(m, cls_info))
    /\ ODictGet(class_nodes, ClassKey(m, cls_info)) \in db_nodes

ClassNodeOf(m, cls_info) == ODictGet(class_nodes, ClassKey(m, cls_info))

KindEdge(type) ==
    CASE type = "INSTANCE_FUNC" -> "HAS_INSTANCE_FUNC_METHOD"
      [] type = "CLASS_FUNC" -> "HAS_CLASS_FUNC_METHOD"
      [] type = "STATIC_FUNC" -> "HAS_STATIC_FUNC_METHOD"

\* the Method nodes of this name that the class node holds by an edge of the kind
MethodNodesOf(class_node, method) ==
    {n \in db_nodes :
        /\ n.label = "Method" /\ n.name = method.name
        /\ \E k \in 1..Len(db_edges) :
              /\ db_edges[k].from = class_node.id
              /\ db_edges[k].to = n.id
              /\ db_edges[k].type = KindEdge(method.type)}

FirstOfItsName(methods, x) == \A y \in 1..(x - 1) : methods[y].name # methods[x].name

OnlyMethodNode(class_node, method) ==
    CHOOSE n \in MethodNodesOf(class_node, method) : TRUE

\* C11: after convert in rebuild mode, for every class of every module
\* (top-level or nested at any depth) that has a Class node, each of its
\* methods with a distinct name has exactly one Method node, edged from its
\* owning class's node by an edge whose type is determined by the method kind;
\* for one class the method nodes are created in the order instance methods,
\* then class methods, then static methods.
C11_MethodNodesOfEveryClass ==
    FirstRebuildDone =>
        \A i \in 1..Len(conv.mods) :
            \A cls_info \in ClassesWithin(conv.mods[i].classes) :
                HasClassNode(conv.mods[i], cls_info) =>
                    LET methods == Methods(cls_info)
                        class_node == ClassNodeOf(conv.mods[i], cls_info)
                        named == {x \in 1..Len(methods) : FirstOfItsName(methods, x)}
                    IN  /\ \A x \in named :
                              Cardinality(MethodNodesOf(class_node, methods[x])) = 1
                        /\ \A x, y \in named :
                              x < y => OnlyMethodNode(class_node, methods[x]).id
                                         < OnlyMethodNode(class_node, methods[y]).id

WritesAdded == SubSeq(writes', Len(writes) + 1, Len(writes'))

\* the inheritance step of a top-level class writes one INHERITS_FROM edge for
\* each listed base whose key is in the class cache, and nothing else
InheritanceStepWritesOnePerCachedBase ==
    (conv.pc = "inherit" /\ rebuild /\ calls = 1) =>
        LET m == conv.mods[conv.i]
            cls_info == m.classes[conv.ci]
            cached == SelectSeq(cls_info.bases,
                         LAMBDA b : ODictHas(class_nodes, <<ConvertModuleName(m), b>>))
        IN  /\ Len(WritesAdded) = Len(cached)
            /\ \A k \in 1..Len(cached) :
                  /\ WritesAdded[k].op = "edge"
                  /\ WritesAdded[k].type = "INHERITS_FROM"
                  /\ WritesAdded[k].from = ClassNodeOf(m, cls_info).id
                  /\ WritesAdded[k].to =
                        ODictGet(class_nodes, <<ConvertModuleName(m), cached[k]>>).id

InheritsEdges(a, b) ==
    {k \in 1..Len(db_edges) :
        /\ db_edges[k].type = "INHERITS_FROM"
        /\ db_edges[k].from = a.id /\ db_edges[k].to = b.id}

\* a class, nested or not, that lists a base defined at top level earlier in its
\* module has an INHERITS_FROM edge to that base's node
EveryClassInheritsFromCachedBase ==
    FirstRebuildDone =>
        \A i \in 1..Len(conv.mods) :
            LET m == conv.mods[i]
            IN  \A c \in 1..Len(m.classes), b \in 1..Len(m.classes) :
                   b < c =>
                      \A cls_info \in ClassesWithin(<<m.classes[c]>>) :
                         (/\ HasClassNode(m, cls_info)
                          /\ \E k \in 1..Len(cls_info.bases) :
                                cls_info.bases[k] = m.classes[b].name)
                            => InheritsEdges(ClassNodeOf(m, cls_info),
                                             ClassNodeOf(m, m.classes[b])) # {}

NodesLabelled(label) == {n \in db_nodes : n.label = label}

\* class Base and then class Child(Base), each with a method run: two Class
\* nodes, one INHERITS_FROM edge Child->Base, two Method nodes
BaseChildScenario ==
    (FirstRebuildDone /\ conv.mods = <<ModuleS>>) =>
        /\ Cardinality(NodesLabelled("Class")) = 2
        /\ Cardinality(NodesLabelled("Method")) = 2
        /\ Cardinality({k \in 1..Len(db_edges) :
                           db_edges[k].type = "INHERITS_FROM"}) = 1
        /\ Cardinality(InheritsEdges(ClassNodeOf(ModuleS, ModuleS.classes[2]),
                                     ClassNodeOf(ModuleS, ModuleS.classes[1]))) = 1

\* C12: for every class processed by convert (top-level or nested) and every
\* base name it textually lists, if a Class node with key (same module, base
\* name) is in the class cache when that class's inheritance step runs, exactly
\* one INHERITS_FROM edge from the class's node to that base's node is created;
\* in particular a module with class Base and then class Child(Base), each
\* having a method run, yields two Class nodes, one INHERITS_FROM edge
\* Child->Base and two Method nodes.
C12_InheritanceOfEveryClass ==
    /\ [](EveryClassInheritsFromCachedBase /\ BaseChildScenario)
    /\ [][InheritanceStepWritesOnePerCachedBase]_vars

\* position of the first key of the module cache that contains the name, 0 if none
FirstKeyContaining(name) ==
    LET K == {k \in 1..Len(module_nodes) : IsSubstring(name, module_nodes[k].key)}
    IN  IF K = {} THEN 0 ELSE CHOOSE k \in K : \A j \in K : k <= j

\* the names a module imports, in the order its import step looks at them;
\* from-imports without a source module are left out
ImportedNames(m) ==
    LET from == SelectSeq(m.imports.from,
                    LAMBDA f : f.module # None /\ f.module # Some(<<>>))
        normal == m.imports.normal
    IN  [k \in 1..Len(from) |-> from[k].module[1]]
        \o [k \in 1..Len(normal) |->
               IF normal[k].name # <<>> THEN normal[k].name ELSE normal[k].as_name[1]]

\* C13: import edges are resolved only against the module cache as populated
\* when the importing module's import step runs: an import whose name no cached
\* key contains creates no edge and no error; any other creates exactly one
\* IMPORTS edge, to the first matching key in cache insertion order; a module
\* later in the input order is never the target; from-imports with an empty
\* source module create no edge.
C13_ImportsResolvedAgainstCache ==
    [][(conv.pc = "imports" /\ rebuild /\ calls = 1) =>
          LET m == conv.mods[conv.i]
              resolved == SelectSeq(ImportedNames(m),
                              LAMBDA name : FirstKeyContaining(name) # 0)
          IN  /\ conv'.pc # "imports" \/ conv'.i # conv.i
              /\ Len(WritesAdded) = Len(resolved)
              /\ db_nodes' = db_nodes
              /\ Len(db_edges') = Len(db_edges) + Len(resolved)
              /\ \A k \in 1..Len(resolved) :
                    LET target == module_nodes[FirstKeyContaining(resolved[k])]
                    IN  /\ WritesAdded[k].op = "edge"
                        /\ WritesAdded[k].type = "IMPORTS"
                        /\ WritesAdded[k].from = conv.module_node.id
                        /\ WritesAdded[k].to = target.value.id
                        /\ \E j \in 1..conv.i :
                              conv.mods[j].full_qualified_name = target.key]_vars

ImportsEdges(a, b) ==
    {k \in 1..Len(db_edges) :
        /\ db_edges[k].type = "IMPORTS"
        /\ db_edges[k].from = a.id /\ db_edges[k].to = b.id}

\* a/u.py then b/u.py have been converted: `import u` of b/u.py, which both
\* cached keys contain, and `from a.u import x` went to a.u; `from . import x`
\* of a/u.py created nothing
C13_Witness ==
    /\ FirstRebuildDone
    /\ conv.mods = <<ModuleA, ModuleB>>
    /\ Cardinality(ImportsEdges(ModuleNodeOf(ModuleB), ModuleNodeOf(ModuleA))) = 2
    /\ ImportsEdges(ModuleNodeOf(ModuleB), ModuleNodeOf(ModuleB)) = {}
    /\ Cardinality({k \in 1..Len(db_edges) : db_edges[k].type = "IMPORTS"}) = 3

LastTwoCallsRebuilt ==
    /\ conv.pc = "idle"
    /\ Len(history) >= 2
    /\ history[Len(history)].rebuild
    /\ history[Len(history) - 1].rebuild

\* C14: for any fixed module list, invoking convert in rebuild mode twice in
\* succession against the same store leaves, after the second call, a graph
\* whose multiset of nodes and edges (by label and property content) is
\* identical to the one left after the first call.
C14_IdempotentRebuild ==
    LastTwoCallsRebuilt =>
        GraphContent(db_nodes, db_edges) = history[Len(history)].before

\* the same, when each of the two calls is made by a newly built converter
IdempotentRebuildByNewConverters ==
    (LastTwoCallsRebuilt /\ history[Len(history)].fresh) =>
        GraphContent(db_nodes, db_edges) = history[Len(history)].before

(***************************************************************************)
(* IMPORTS edges and the importing module's own node.                       *)
(***************************************************************************)

\* C30: no IMPORTS edge produced by convert is a self-loop: the target of
\* every IMPORTS edge written for module M is the node of a module other
\* than M.
C30_NoImportsSelfLoop ==
    \A k \in 1..Len(db_edges) :
        db_edges[k].type = "IMPORTS" => db_edges[k].from # db_edges[k].to

\* both ends of every IMPORTS edge are Module nodes of the store
ImportsJoinModuleNodes ==
    \A k \in 1..Len(db_edges) :
        db_edges[k].type = "IMPORTS" =>
            \E a, b \in db_nodes :
                /\ a.label = "Module" /\ a.id = db_edges[k].from
                /\ b.label = "Module" /\ b.id = db_edges[k].to

(***************************************************************************)

(* Claims about function bodies, module names and the directory walk.       *)
(***************************************************************************)

FirstBodyLine == func_node.body[1].lineno
LastBodyLine == func_node.body[Len(func_node.body)].end_lineno

\* the returned text is the lines from the first body statement's first line
\* through the last body statement's last line
BodyIsStatementLines ==
    body # None =>
        /\ Len(body[1]) = LastBodyLine - FirstBodyLine + 1
        /\ \A k \in 1..Len(body[1]) : body[1][k] = src_lines[FirstBodyLine + k - 1]

\* no returned line carries the signature or a decorator
BodyExcludesSignature ==
    body # None =>
        \A k \in 1..Len(body[1]) :
            body[1][k].carries \cap {"signature", "decorator"} = {}

\* C15: for every function definition with a non-empty body, bodyText is
\* exactly the source lines from the first line of the first body statement
\* through the last line of the last body statement, and it contains no line
\* that carries the function's signature or its decorators, for every layout
\* of the definition, including a body written on the same line as the
\* signature.
C15_BodyTextIsTheBodyLines == BodyIsStatementLines /\ BodyExcludesSignature

\* the file's path relative to the project root, separators replaced by '.',
\* the trailing extension removed
RelativeDottedName == JoinPath(path_args.dirs \o <<path_args.stem>>, <<".">>)

\* C16: for every accepted source file under the project root, the Module's
\* qualifiedName equals the file's path relative to the project root with each
\* path separator replaced by '.' and only the trailing file extension removed:
\* name parts that merely contain the root string or the text '.py' are
\* preserved, and an accepted extension in any letter case is stripped.
C16_QualifiedNameIsRelativePath ==
    (path_result # NoneNode /\ path_result.names # NoneNode
        /\ path_result.names.raised = None)
      => path_result.names.full_qualified_name = RelativeDottedName

\* the same for files whose directory and file names contain neither the root
\* string nor '.py' and whose extension is written in lower case
QualifiedNameOfPlainPaths ==
    (/\ path_result # NoneNode /\ path_result.names # NoneNode
     /\ path_result.names.raised = None
     /\ path_args.suffix = <<".", "p", "y">>
     /\ path_args.stem = <<"m">>
     /\ \A k \in 1..Len(path_args.dirs) : path_args.dirs[k] = <<"a">>)
      => path_result.names.full_qualified_name = RelativeDottedName

NotASourceFile ==
    \/ path_args.on_disk # "file"
    \/ path_args.suffix # <<".", "p", "y">>

\* C17: extracting a Module from a path that does not exist, is a directory, or
\* does not have the .py extension fails with a path-resolution error before
\* any source text is read or parsed, and produces no Module; every Module
\* returned by parse_file has its qualifiedName set.
C17_BadPathFailsBeforeReading ==
    (path_result # NoneNode /\ path_result.parsed_file # NoneNode) =>
        LET r == path_result.parsed_file
        IN  /\ NotASourceFile =>
                  (r.raised # None /\ ~r.read /\ ~r.parsed /\ r.module = None)
            /\ r.module # None => r.module[1].names # None

\* the walk handed this file to parse_file and it is not valid Python
ReachedUnparsable(k) ==
    /\ \E c \in 1..Len(loader.called) : loader.called[c] = k
    /\ ~dir_files[k].syntax_ok

\* C18: when a file reached during a directory walk cannot be parsed (syntax
\* error), parse_file yields no Module for it and the whole run is aborted: no
\* later file is parsed, parse_directory returns no module list, and neither
\* the relational save nor the graph convert is started for that run.
C18_UnparsableFileAbortsRun ==
    loader # NoneNode =>
        \A k \in 1..Len(dir_files) :
            ReachedUnparsable(k) =>
                /\ loader.pc = "aborted"
                /\ loader.raised # None
                /\ Len(loader.module_infos) < Len(loader.called)
                /\ \A c \in 1..Len(loader.called) : loader.called[c] <= k
                /\ \A j \in loader.parsed : j < k
                /\ loader.returned = None
                /\ ~loader.persisted /\ ~loader.converted

\* the walk has reached an unparsable file that is followed by another source
\* file, and has stopped there
C18_Witness ==
    /\ loader # NoneNode
    /\ loader.pc = "aborted"
    /\ \E k \in 1..Len(dir_files) :
          /\ ReachedUnparsable(k)
          /\ k < Len(dir_files)
          /\ AcceptedSuffix(dir_files[k + 1])

(***************************************************************************)
(* Claims about ProjectLoader (SpecLoad).                                   *)
(***************************************************************************)

\* C25: _load_from_git raises only when the git clone process ends with a
\* non-zero return code or cannot be started: when the clone exits with return
\* code 0 it returns normally and load proceeds to parsing; when the storage
\* path already exists no clone is started and no error is raised.
C25_CloneRaisesOnlyOnFailure ==
    (loader # NoneNode /\ loader.git # None) =>
        LET project == loader.project
            r == loader.git[1]
            failed == ~project.clone.starts \/ project.clone.return_code # 0
        IN  IF project.path_exists
            THEN ~r.started /\ r.raised = None /\ loader.pc # "aborted"
            ELSE /\ r.raised # None <=> failed
                 /\ ~failed => loader.pc # "aborted"

\* what does hold: the clone is skipped without error when the storage path
\* exists, and every clone that is tried ends in an error
CloneSkippedOrRaises ==
    (loader # NoneNode /\ loader.git # None) =>
        IF loader.project.path_exists
        THEN ~loader.git[1].started /\ loader.git[1].raised = None
        ELSE loader.git[1].raised # None /\ loader.pc = "aborted"

(***************************************************************************)
(* Further claims about the walk.                                           *)
(***************************************************************************)

AstOf(kind, id) == ast[AstIndex(kind, id)]

InSeq(x, seq) == \E k \in 1..Len(seq) : seq[k] = x

\* definitions are numbered in the order the walk meets them, so a list is in
\* source order when its numbers increase
InSourceOrder(seq) == \A k, l \in 1..Len(seq) : k < l => seq[k] < seq[l]

\* C19: when a class block finishes, it is appended to the nestedClasses of its
\* immediately enclosing class if one exists, otherwise to the Module's
\* classes; so the Module's classes contains only classes with no enclosing
\* class, and sibling classes appear in their container in source order.
C19_FinishedClassGoesToEnclosingClass ==
    /\ \A c \in 1..Len(class_infos) :
          LET node == AstOf("class", c)
          IN  IF ~node.finished
              THEN ClassContainers(c) = {}
              ELSE IF node.encl_class # 0
              THEN /\ InSeq(c, class_infos[node.encl_class].nested_classes)
                   /\ ~InSeq(c, module_info.classes)
              ELSE InSeq(c, module_info.classes)
    /\ \A k \in 1..Len(module_info.classes) :
          AstOf("class", module_info.classes[k]).encl_class = 0
    /\ InSourceOrder(module_info.classes)
    /\ \A d \in 1..Len(class_infos) : InSourceOrder(class_infos[d].nested_classes)

\* a fully walked file with two sibling classes at module level
C19_Witness ==
    /\ walk_pc = "done"
    /\ Len(class_infos) = 2
    /\ module_info.classes = <<1, 2>>

\* C20: after any walk, the Module's functions collection contains only
\* functions defined directly at module scope: a function defined inside
\* another function's body, or inside a class, is never an element of
\* Module.functions.
C20_ModuleFunctionsAreModuleScope ==
    walk_pc = "done" =>
        \A k \in 1..Len(module_info.functions) :
            AstOf("func", module_info.functions[k]).parent_kind = "module"

\* the owner collections a function object sits in, one element per occurrence
FunctionContainers(f) ==
    {<<"module", 0, "functions", k>> :
        k \in {j \in 1..Len(module_info.functions) : module_info.functions[j] = f}}
    \cup UNION {{<<"class", d, kind, k>> :
                    k \in {j \in 1..Len(MethodList(d, kind)) :
                              MethodList(d, kind)[j] = f}} :
                  d \in 1..Len(class_infos), kind \in FunctionKinds}

\* the owner collections of a definition
Owners(node) ==
    IF node.kind = "class" THEN ClassContainers(node.id)
    ELSE FunctionContainers(node.id)

\* a definition is in no owner collection while its block is being walked and
\* in exactly one, once, from the moment the block has finished
AppendedOnceWhenFinished ==
    \A i \in 1..Len(ast) :
        Cardinality(Owners(ast[i])) = IF ast[i].finished THEN 1 ELSE 0

\* a definition nested in another has been appended when the enclosing one is
NestedAppendedFirst ==
    \A i \in 1..Len(ast) :
        ast[i].parent_kind # "module" =>
            (AstOf(ast[i].parent_kind, ast[i].parent_id).finished => ast[i].finished)

\* no step changes a field of a definition that has been appended
AppendedNeverModified ==
    [][ \A i \in 1..Len(ast) :
           ast[i].finished =>
               IF ast[i].kind = "class"
               THEN class_infos'[ast[i].id] = class_infos[ast[i].id]
               ELSE func_infos'[ast[i].id] = func_infos[ast[i].id] ]_vars

\* C21: every class or function definition is appended to exactly one owner
\* collection, exactly once, at the moment its own block finishes being walked
\* (a nested definition before its enclosing one), and after that append none
\* of its fields is modified by the remainder of the walk.
C21_AppendedOncePostOrderThenFrozen ==
    /\ [](AppendedOnceWhenFinished /\ NestedAppendedFirst)
    /\ AppendedNeverModified

\* a method and its class have both been appended and a later module-level
\* assignment has been recorded by the walk
C21_Witness ==
    /\ walk_pc = "done"
    /\ Len(ast) = 2
    /\ ast[1].kind = "class" /\ ast[2].kind = "func" /\ ast[2].parent_kind = "class"
    /\ class_infos[1].instance_methods = <<1>>
    /\ module_info.classes = <<1>>
    /\ Len(module_info.variables) = 1
    /\ assigns[Len(assigns)].top_kind = "module"

(***************************************************************************)
(* Further claims about convert (SpecGraph).                                *)
(***************************************************************************)

\* the Module node a node of the store hangs from: the start of the chain of
\* containment edges that ends at the node (the node itself if it has none)
RECURSIVE OwnerModule(_, _)
OwnerModule(id, fuel) ==
    LET up == {k \in 1..Len(db_edges) :
                  db_edges[k].to = id /\ db_edges[k].type \in ContainmentTypes}
    IN  IF up = {} \/ fuel = 0 THEN id
        ELSE OwnerModule(db_edges[CHOOSE k \in up : \A j \in up : k <= j].from,
                         fuel - 1)

\* every INHERITS_FROM edge joins two Class nodes of one module
InheritanceWithinOneModule ==
    \A k \in 1..Len(db_edges) :
        db_edges[k].type = "INHERITS_FROM" =>
            LET a == NodeById(db_nodes, db_edges[k].from)
                b == NodeById(db_nodes, db_edges[k].to)
            IN  /\ a.label = "Class" /\ b.label = "Class"
                /\ OwnerModule(a.id, Cardinality(db_nodes))
                     = OwnerModule(b.id, Cardinality(db_nodes))

\* the edges an inheritance step writes end at nodes created before the step
InheritanceTargetsAlreadyCreated ==
    [][ conv.pc = "inherit" =>
           \A k \in (Len(db_edges) + 1)..Len(db_edges') :
               /\ db_edges'[k].type = "INHERITS_FROM"
               /\ \E n \in db_nodes : n.id = db_edges'[k].to ]_vars

\* C22: every INHERITS_FROM edge produced by convert connects two Class nodes
\* that belong to the same module, and its target node was created no later
\* than the inheritance step of its source class; a base declared in another
\* module never gets an edge.
C22_InheritanceStaysInsideTheModule ==
    /\ [](InheritanceWithinOneModule)
    /\ InheritanceTargetsAlreadyCreated

\* the lexical place of a node of the store, read off its chain of containment
\* edges: the qualified name of the Module node at the top and the names of
\* the nodes below it
RECURSIVE NodePlace(_, _)
NodePlace(id, fuel) ==
    LET n == NodeById(db_nodes, id)
        up == ContainmentEdgesTo(n)
    IN  IF n.label = "Module"
        THEN [module |-> Some(n.props.full_qualified_name), names |-> <<>>]
        ELSE IF up = {} \/ fuel = 0
        THEN [module |-> None, names |-> <<n.name>>]
        ELSE LET above == NodePlace(db_edges[CHOOSE k \in up : TRUE].from, fuel - 1)
             IN  [above EXCEPT !.names = Append(@, n.name)]

\* a chain of class names, each nested in the one before, starting in `classes`
RECURSIVE ClassAt(_, _)
ClassAt(classes, names) ==
    \E k \in 1..Len(classes) :
        /\ classes[k].name = names[1]
        /\ \/ Len(names) = 1
           \/ ClassAt(classes[k].nested_classes, Tail(names))

\* every Class node of the store has one incoming containment edge, a
\* HAS_CLASS edge from the node of the class or module the class is written in
ClassNodeHangsFromItsContainer ==
    \A n \in db_nodes :
        n.label = "Class" =>
            /\ Cardinality(ContainmentEdgesTo(n)) = 1
            /\ \A k \in ContainmentEdgesTo(n) : db_edges[k].type = "HAS_CLASS"
            /\ LET place == NodePlace(n.id, Cardinality(db_nodes))
               IN  /\ place.module # None
                   /\ \E i \in 1..Len(conv.mods) :
                         /\ conv.mods[i].full_qualified_name = place.module[1]
                         /\ ClassAt(conv.mods[i].classes, place.names)

\* in the writes of one create_class_node call every Class node is followed at
\* once by the HAS_CLASS edge to it: from the Module node for the class the
\* call was made for, from a class node written earlier in the call for the
\* classes nested in it
ClassNodeLinkedBeforeItsNestedClasses ==
    conv.pc = "class" =>
        LET first == Len(writes) + 1
        IN  \A p \in first..Len(writes') :
                writes'[p].op = "node" =>
                    /\ p < Len(writes')
                    /\ writes'[p + 1].op = "edge"
                    /\ writes'[p + 1].type = "HAS_CLASS"
                    /\ writes'[p + 1].to = writes'[p].id
                    /\ IF p = first
                       THEN writes'[p + 1].from = conv.module_node.id
                       ELSE \E q \in first..(p - 1) :
                               /\ writes'[q].op = "node"
                               /\ writes'[p + 1].from = writes'[q].id

\* C23: Class nodes are created depth-first: a class's node is created and
\* linked by a containment edge from its parent's node (the immediate parent
\* class for a nested class, the Module node for a top-level class) before any
\* of its own nested classes is processed; so every Class node in the store
\* has exactly one incoming containment edge, coming from the node of its
\* immediate lexical container.
C23_ClassNodesDepthFirst ==
    /\ [](ClassNodeHangsFromItsContainer)
    /\ [][ClassNodeLinkedBeforeItsNestedClasses]_vars

\* a class, a class nested in it and the two HAS_CLASS edges are in the store
C23_Witness ==
    /\ conv.pc = "idle"
    /\ \E a, b \in db_nodes :
          /\ a.label = "Class" /\ a.name = "Child"
          /\ b.label = "Class" /\ b.name = "Inner"
          /\ \E k \in 1..Len(db_edges) :
                db_edges[k] = [from |-> a.id, type |-> "HAS_CLASS", to |-> b.id]
          /\ \E k \in 1..Len(db_edges) :
                /\ db_edges[k].to = a.id /\ db_edges[k].type = "HAS_CLASS"
                /\ NodeById(db_nodes, db_edges[k].from).label = "Module"

\* the place of convert's loops as a tuple that grows in the claimed order:
\* module index; Module node, classes, functions, imports; for the classes the
\* class index and, within a class, class node, methods, inheritance
StepRank(c) ==
    CASE c.pc = "module" -> <<c.i, 1, 0, 0, 0>>
      [] c.pc = "class" -> <<c.i, 2, c.ci, 1, 0>>
      [] c.pc = "method" -> <<c.i, 2, c.ci, 2, c.mi>>
      [] c.pc = "inherit" -> <<c.i, 2, c.ci, 3, 0>>
      [] c.pc = "function" -> <<c.i, 3, c.fi, 0, 0>>
      [] c.pc = "imports" -> <<c.i, 4, 0, 0, 0>>

\* lexicographic order of two tuples of the same length
LexLess(a, b) ==
    \E k \in 1..Len(a) : a[k] < b[k] /\ \A j \in 1..(k - 1) : a[j] = b[j]

\* the steps of a call follow the claimed order: it starts at the Module node
\* of the first module, every later step is further on, a module is left only
\* after its import step and entered only at its Module node
StepsInFixedOrder ==
    /\ (conv.pc = "idle" /\ conv'.pc # "idle")
          => StepRank(conv') = <<1, 1, 0, 0, 0>>
    /\ (conv.pc # "idle" /\ conv'.pc # "idle")
          => LexLess(StepRank(conv), StepRank(conv'))
    /\ (conv.pc # "idle" /\ conv'.i # conv.i)
          => conv.pc = "imports" /\ conv'.pc \in {"module", "idle"}

MethodEdgeTypes ==
    {"HAS_INSTANCE_FUNC_METHOD", "HAS_CLASS_FUNC_METHOD", "HAS_STATIC_FUNC_METHOD"}

\* the node labels and edge types a step of each kind may write
StepWrites(pc) ==
    CASE pc = "module" -> [nodes |-> {"Module"}, edges |-> {}]
      [] pc = "class" -> [nodes |-> {"Class"}, edges |-> {"HAS_CLASS"}]
      [] pc = "method" -> [nodes |-> {"Method"}, edges |-> MethodEdgeTypes]
      [] pc = "inherit" -> [nodes |-> {}, edges |-> {"INHERITS_FROM"}]
      [] pc = "function" -> [nodes |-> {"Function"}, edges |-> {"HAS_FUNCTION"}]
      [] pc = "imports" -> [nodes |-> {}, edges |-> {"IMPORTS"}]

\* each step writes only what belongs to its place, for the module in hand
StepWritesItsKind ==
    conv.pc # "idle" =>
        \A p \in (Len(writes) + 1)..Len(writes') :
            /\ writes'[p].module = conv.i
            /\ IF writes'[p].op = "node"
               THEN NodeById(db_nodes', writes'[p].id).label
                        \in StepWrites(conv.pc).nodes
               ELSE /\ writes'[p].op = "edge"
                    /\ writes'[p].type \in StepWrites(conv.pc).edges

\* the constructor calls one module causes, in the claimed order
RECURSIVE ExpectedClassCalls(_, _)
ExpectedClassCalls(module_name, classes) ==
    IF classes = <<>> THEN <<>>
    ELSE LET cls_info == Head(classes)
             methods == Methods(cls_info)
         IN  <<<<"create_class_node", <<module_name, cls_info.name>> >>>>
             \o [k \in 1..Len(methods) |->
                    <<"create_method_node",
                      <<module_name, cls_info.name, methods[k].name>> >>]
             \o ExpectedClassCalls(module_name, Tail(classes))

ExpectedModuleCalls(m) ==
    <<<<"create_module_node", m.full_qualified_name>>>>
    \o ExpectedClassCalls(ConvertModuleName(m), m.classes)
    \o [k \in 1..Len(m.functions) |->
           <<"create_function_node", <<ConvertModuleName(m), m.functions[k].name>> >>]

RECURSIVE ExpectedCalls(_)
ExpectedCalls(mods) ==
    IF mods = <<>> THEN <<>>
    ELSE ExpectedModuleCalls(Head(mods)) \o ExpectedCalls(Tail(mods))

\* a rebuilding call that has returned made exactly the expected calls
AllStepsTaken ==
    (conv.pc = "idle" /\ calls > 0 /\ rebuild /\ conv.mods # <<>>) =>
        [k \in 1..Len(call_log) |-> <<call_log[k].op, call_log[k].key>>]
            = ExpectedCalls(conv.mods)

\* both ends of a written containment edge were written before it
ContainmentEdgeAfterItsNodes ==
    \A p \in 1..Len(writes) :
        (writes[p].op = "edge" /\ writes[p].type \in ContainmentTypes) =>
            /\ \E q \in 1..(p - 1) :
                  writes[q].op = "node" /\ writes[q].id = writes[p].from
            /\ \E q \in 1..(p - 1) :
                  writes[q].op = "node" /\ writes[q].id = writes[p].to

\* C24: within the processing of one module the write steps occur in a fixed
\* order: the Module node first; then, for each top-level class in order, its
\* Class node (with its nested Class nodes), then its Method nodes, then its
\* inheritance edges; then the module-level Function nodes; the import edges
\* last.  No containment edge is written before both of its endpoint nodes.
C24_WriteStepsInFixedOrder ==
    /\ [](AllStepsTaken /\ ContainmentEdgeAfterItsNodes)
    /\ [][StepsInFixedOrder /\ StepWritesItsKind]_vars

\* a call has gone through a module that made every kind of step write
C24_Witness ==
    /\ conv.pc = "idle"
    /\ Len(conv.mods) = 2
    /\ \A t \in {"HAS_CLASS", "HAS_INSTANCE_FUNC_METHOD", "INHERITS_FROM",
                 "HAS_FUNCTION", "IMPORTS"} :
          \E p \in 1..Len(writes) :
             writes[p].op = "edge" /\ writes[p].type = t /\ writes[p].module = 2

(***************************************************************************)
(* One parser, several files (SpecReuse).                                   *)
(***************************************************************************)

\* the sizes of the two heaps when the k-th returned file began to be parsed
ClassesBefore(k) == IF k = 1 THEN 0 ELSE Len(returned[k - 1].class_infos)
FunctionsBefore(k) == IF k = 1 THEN 0 ELSE Len(returned[k - 1].func_infos)

\* the contexts were empty when the call returned
ContextsEmptyAtReturn ==
    \A k \in 1..Len(returned) :
        returned[k].current_class = 0 /\ returned[k].current_function = 0

\* the returned Module holds classes and functions of its own file only
ModuleOfItsFileOnly ==
    \A k \in 1..Len(returned) :
        LET m == returned[k].module_info
        IN  /\ \A j \in 1..Len(m.classes) :
                  /\ m.classes[j] > ClassesBefore(k)
                  /\ m.classes[j] <= Len(returned[k].class_infos)
            /\ \A j \in 1..Len(m.functions) :
                  /\ m.functions[j] > FunctionsBefore(k)
                  /\ m.functions[j] <= Len(returned[k].func_infos)

\* the classes and functions of a returned file are as they were at its return
EarlierFilesUntouched ==
    \A k \in 1..Len(returned) :
        /\ \A c \in 1..Len(returned[k].class_infos) :
              class_infos[c] = returned[k].class_infos[c]
        /\ \A f \in 1..Len(returned[k].func_infos) :
              func_infos[f] = returned[k].func_infos[f]

\* C29: whenever parse_file returns normally the parser's current-class and
\* current-function contexts are both empty and its module_info is the Module
\* of that file only; so when one parser instance parses several files in
\* sequence, each returned Module is a distinct object and no class, function,
\* constant or variable of a later file is attached to a Module, class or
\* function of an earlier file.
C29_ParserKeepsNothingBetweenFiles ==
    /\ ContextsEmptyAtReturn
    /\ ModuleOfItsFileOnly
    /\ EarlierFilesUntouched

\* no definition was left open by a walk that an exception ended
NoDefinitionLeftOpen ==
    \A k \in 1..Len(ast) :
        \/ ast[k].finished
        \/ \E j \in 1..Len(stack) :
               stack[j].kind = ast[k].kind /\ stack[j].id = ast[k].id

\* as long as no earlier walk was ended inside a definition, the parser
\* keeps nothing between files
CleanWhileNoWalkWasAborted ==
    NoDefinitionLeftOpen =>
        /\ ContextsEmptyAtReturn
        /\ ModuleOfItsFileOnly
        /\ EarlierFilesUntouched

(***************************************************************************)

(* Cache and store of one converter.                                        *)
(***************************************************************************)

\* the nodes an identity cache holds
Cached(cache) == {cache[k].value : k \in 1..Len(cache)}

\* the cache that holds the nodes of a label
CacheOfLabel(label) ==
    CASE label = "Module" -> module_nodes
      [] label = "Class" -> class_nodes
      [] label = "Method" -> method_nodes
      [] label = "Function" -> function_nodes

CachesAgreeWithStore ==
    /\ \A label \in {"Module", "Class", "Method", "Function"} :
          Cached(CacheOfLabel(label)) \subseteq db_nodes
    /\ \A n \in db_nodes :
          n.label \in {"Module", "Class", "Method", "Function"}
              => n \in Cached(CacheOfLabel(n.label))

\* every convert call on the store so far was made by the converter in hand
OnlyConverterOfTheStore == \A k \in 2..Len(history) : ~history[k].fresh

\* C28: after every completed convert call, for any sequence of convert calls
\* on the same instance, every node held in the module, class, method or
\* function identity cache exists in the graph store, and every Module, Class,
\* Method or Function node in the store is held in the corresponding cache.
C28_CachesAgreeWithStore ==
    (conv.pc = "idle" /\ calls > 0 /\ OnlyConverterOfTheStore)
        => CachesAgreeWithStore

\* the same after the first call of a converter that rebuilds
CachesAgreeAfterFirstRebuild ==
    (conv.pc = "idle" /\ calls = 1 /\ rebuild /\ conv.mods # <<>>)
        => CachesAgreeWithStore

(***************************************************************************)

(* Claims about AppInitializer (SpecApp).                                   *)
(***************************************************************************)

\* the add_task and task calls made so far for a function
Registrations(func) ==
    {k \in 1..Len(init_calls) :
        init_calls[k].kind \in {"add_task", "task"} /\ init_calls[k].func = func}

\* the executions a call caused
ExecutionsOf(call) == {e \in 1..Len(exec_log) : exec_log[e].call = call}

\* a registration with lazy=True executes nothing
LazyRegistrationRunsNothing ==
    \A func \in TaskFuncs : \A k \in Registrations(func) :
        init_calls[k].lazy => ExecutionsOf(k) = {}

\* C26: a task registered with lazy=True is not executed by its own
\* registration nor by any later add_task/task registration of another task;
\* it is executed only by an explicit call of run().
C26_LazyTaskRunsOnlyOnRun ==
    /\ LazyRegistrationRunsNothing
    /\ \A e \in 1..Len(exec_log) :
          LET func == exec_log[e].func
              call == exec_log[e].call
          IN  (\A k \in Registrations(func) : k <= call => init_calls[k].lazy)
                  => init_calls[call].kind = "run"

\* the tasks held are one per function
OneTaskPerFunction ==
    \A t, u \in tasks : t.func = u.func => t = u

\* without a reloading run no function is executed twice
AtMostOnceWithoutReload ==
    (\A k \in 1..Len(init_calls) : ~init_calls[k].reload) =>
        \A e, d \in 1..Len(exec_log) :
            exec_log[e].func = exec_log[d].func => e = d

\* a function registered with lazy=False has been executed when the call returns
NonLazyExecutedOnReturn ==
    \A func \in TaskFuncs : \A k \in Registrations(func) :
        ~init_calls[k].lazy =>
            \E e \in 1..Len(exec_log) :
                exec_log[e].func = func /\ exec_log[e].call <= k

\* a run(reload=True) call executes every function registered before it once
ReloadExecutesEachOnce ==
    \A k \in 1..Len(init_calls) :
        (init_calls[k].kind = "run" /\ init_calls[k].reload) =>
            \A func \in TaskFuncs :
                Cardinality({e \in ExecutionsOf(k) : exec_log[e].func = func})
                    = IF \E r \in Registrations(func) : r < k THEN 1 ELSE 0

====
